---- MODULE Spec2Model ----
(***************************************************************************)
(* Model of the RI period utilization analysis,                            *)
(* analyze_ri_utilization_for_period and generate_alert, of                *)
(* src/local_run/analyze_ri_utilization.py (the Azure function variant in  *)
(* src/azure_functions/analyze_ri_func/analyze_ri_utilization.py has the   *)
(* same loop body).                                                        *)
(*                                                                         *)
(* Representation.                                                         *)
(*  - A datetime.date used only for comparison and timedelta arithmetic    *)
(*    (report dates, the window) is its proleptic Gregorian ordinal.       *)
(*  - A date whose fields are read (purchase date, expiry date) is a       *)
(*    record [year, month, day]; ToOrdinal converts.                       *)
(*  - min_util_threshold is a float fraction; it is held in tenths, and    *)
(*    ThresholdPct is min_util_threshold * 100.  Only fractions whose      *)
(*    product with 100 is exact in binary floating point are drawn.        *)
(*  - usage_quantity values are whole percentages.                         *)
(*  - overall_utilization_percent is the exact quotient [num, den].        *)
(*  - Python None is NoDate for a date and NoneTerm for term_months; the   *)
(*    placeholder "N/A" of term_months is TermNA.                          *)
(***************************************************************************)
EXTENDS Integers, Sequences, FiniteSets, TLC

\* ------------------------------------------------------------------ bounds

\* Longest analysis window, in days, of Spec.
MaxDays == 5
\* Longest analysis window of SpecExpiry.
MaxExpiryDays == 2
\* Longest analysis window of SpecAlert.
MaxAlertDays == 3
\* rows in a fetched row list (SpecMalformed, SpecTwice, SpecPermuted,
\* SpecDuplicates)
MaxRows == 3
\* entries in an imported file (SpecImport)
MaxEntries == 3
\* The most rows a blob holds after its header.
MaxCsvRows == 3

\* ------------------------------------------------------- calendar (stdlib)

IsLeap(y) == (y % 4 = 0 /\ y % 100 # 0) \/ y % 400 = 0

\* calendar.monthrange(year, month)[1]
DaysInMonth(y, m) ==
    IF m = 2 THEN (IF IsLeap(y) THEN 29 ELSE 28)
    ELSE IF m \in {4, 6, 9, 11} THEN 30 ELSE 31

DaysBeforeYear(y) ==
    365 * (y - 1) + ((y - 1) \div 4) - ((y - 1) \div 100) + ((y - 1) \div 400)

RECURSIVE DaysBeforeMonth(_, _)
DaysBeforeMonth(y, m) ==
    IF m <= 1 THEN 0 ELSE DaysBeforeMonth(y, m - 1) + DaysInMonth(y, m - 1)

\* date.toordinal(); date subtraction is the difference of ordinals.
ToOrdinal(d) == DaysBeforeYear(d.year) + DaysBeforeMonth(d.year, d.month) + d.day

\* Whether date(y, m, d) constructs (otherwise it raises ValueError).
IsValidDate(y, m, d) == m \in 1..12 /\ d >= 1 /\ d <= DaysInMonth(y, m)

MkDate(y, m, d) == [year |-> y, month |-> m, day |-> d]

\* None, for a date.
NoDate == MkDate(0, 0, 0)
\* None, for term_months (a NULL column).
NoneTerm == -1
\* The "N/A" placeholder of data_payload["term_months"].
TermNA == -2

Pad2(n) == IF n < 10 THEN "0" \o ToString(n) ELSE ToString(n)

\* d.strftime("%Y-%m-%d") if d else "N/A"   (years have four digits here)
FormatDate(d) ==
    IF d = NoDate THEN "N/A"
    ELSE ToString(d.year) \o "-" \o Pad2(d.month) \o "-" \o Pad2(d.day)

Max(a, b) == IF a >= b THEN a ELSE b
Min(a, b) == IF a <= b THEN a ELSE b

\* ------------------------------------------------------------------- state

VARIABLES
    \* arguments of analyze_ri_utilization_for_period
    analysis_period_start_date, analysis_period_end_date,
    min_util_threshold, expiry_warn_days,
    min_underutilized_days_for_alert, min_unused_days_for_alert,
    \* the grouped rows, and the identities the loop has still to visit
    ri_grouped_data, todo,
    \* position in the function, and the identity being analysed
    pc, cur,
    \* locals of the per-RI loop body
    current_underutilized_days_consecutive, current_unused_days_consecutive,
    max_underutilized_sequence, max_unused_sequence,
    total_utilization_sum, valid_utilization_days_count,
    total_underutilized_days_period_actual, total_unused_days_period_actual,
    data_payload, missing_days_count,
    first_actual_data_date_in_period, last_actual_data_date_in_period,
    current_date, is_data_continuous_from_start, overall_utilization_percent,
    expiry_date_ri_obj, is_expiring_soon, days_remaining, expiry_status,
    status, alerts,
    \* the list the function returns
    aggregated_results,
    \* the rows the query fetched, and those the grouping loop has still to read
    raw_data, rows_left,
    \* the callers' side: the row lists of the calls still to come, and what
    \* each finished call gave back
    later_inputs, earlier_outputs,
    \* import_to_db.py: the rows of the table ri_usage in the order of their
    \* insertion, the entries of the file still to insert, the two counters,
    \* where the import stands, the files still to import and what each
    \* finished import left
    ri_usage, data_left, inserted, skipped, import_pc, later_files, import_log,
    \* main.py: args.mode, where main stands, the stage whose subprocess is
    \* running, the finished stages with their return codes, what was
    \* printed, and the argument of sys.exit
    mode, main_pc, running, stage_results, stdout, exit_code,
    \* import_to_db_func: the environment's connection string, the columns of
    \* the blob's header, the CSV rows after it and the index of the row being
    \* read, where main stands, the counter, the rows inserted in the open transaction and whether it has
    \* failed, the committed rows of the PostgreSQL table, the output binding
    conn_string, header_map, csv_reader, row_num, blob_pc, rows_processed,
    pg_pending, pg_failed, pg_ri_usage, outputQueue

argVars == <<analysis_period_start_date, analysis_period_end_date,
             min_util_threshold, expiry_warn_days,
             min_underutilized_days_for_alert, min_unused_days_for_alert,
             ri_grouped_data>>

walkVars == <<current_underutilized_days_consecutive,
              current_unused_days_consecutive,
              max_underutilized_sequence, max_unused_sequence,
              total_utilization_sum, valid_utilization_days_count,
              total_underutilized_days_period_actual,
              total_unused_days_period_actual, data_payload, current_date>>

spanVars == <<missing_days_count, first_actual_data_date_in_period,
              last_actual_data_date_in_period>>

expiryVars == <<expiry_date_ri_obj, is_expiring_soon, days_remaining,
                expiry_status>>

callVars == <<raw_data, rows_left, later_inputs, earlier_outputs>>

importVars == <<data_left, inserted, skipped, import_pc, later_files, import_log>>

pipeVars == <<mode, main_pc, running, stage_results, stdout, exit_code>>

blobVars == <<conn_string, header_map, csv_reader, row_num, blob_pc,
              rows_processed,
              pg_pending, pg_failed, pg_ri_usage, outputQueue>>

hostVars == <<pipeVars, blobVars>>

vars == <<argVars, todo, pc, cur, walkVars, spanVars,
          is_data_continuous_from_start, overall_utilization_percent,
          expiryVars, status, alerts, aggregated_results, callVars,
          ri_usage, importVars, hostVars>>

\* total_analysis_days = (end - start).days + 1
total_analysis_days == analysis_period_end_date - analysis_period_start_date + 1

\* min_util_threshold * 100
ThresholdPct == min_util_threshold * 10

\* daily_data of the identity being analysed
daily_data == ri_grouped_data[cur]

\* None, for first/last_actual_data_date_in_period.
NoOrdinal == 0

\* ------------------------------------------------------ the window walk

\* (mutant: a day exactly at the threshold counts as underutilized)
UnderutilizedAfterInclusive(c, u, thr) == IF u <= thr THEN c + 1 ELSE 0

\* current_underutilized_days_consecutive after a day with utilization u
UnderutilizedAfter(c, u, thr) == IF u < thr THEN c + 1 ELSE 0

\* (mutant: a day at 0 counts as unused whatever the threshold is)
UnusedAfterAnyThreshold(c, u, thr) == IF u = 0 THEN c + 1 ELSE 0

\* (mutant: an unused day starts the count again at 1)
UnusedAfterRestart(c, u, thr) ==
    IF u < thr THEN (IF u = 0 THEN 1 ELSE 0) ELSE 0

\* current_unused_days_consecutive after a day with utilization u
UnusedAfter(c, u, thr) ==
    IF u < thr THEN (IF u = 0 THEN c + 1 ELSE 0) ELSE 0

\* (mutant: an unused day is not counted among the underutilized days)
TotalUnderutilizedAfterNotUnused(t, u, thr) ==
    IF u < thr /\ u # 0 THEN t + 1 ELSE t

\* total_underutilized_days_period_actual after a day with utilization u
TotalUnderutilizedAfter(t, u, thr) == IF u < thr THEN t + 1 ELSE t

\* total_unused_days_period_actual after a day with utilization u
TotalUnusedAfter(t, u, thr) == IF u < thr /\ u = 0 THEN t + 1 ELSE t

\* (mutant: the attributes of the first day with data stay)
PayloadKeepFirst(rec) ==
    IF data_payload.email_recipient # "N/A" THEN data_payload
    ELSE [sku_name |-> rec.sku_name, region |-> rec.region,
          term_months |-> rec.term_months,
          email_recipient |-> rec.email_recipient,
          purchase_date |-> rec.purchase_date]

\* data_payload.update({...}) from the day's record
PayloadFrom(rec) ==
    [sku_name |-> rec.sku_name, region |-> rec.region,
     term_months |-> rec.term_months,
     email_recipient |-> rec.email_recipient,
     purchase_date |-> rec.purchase_date]

\* (mutant: continuous only when the whole window has data)
IsContinuousWholeWindow(first, last, count) ==
    first # NoOrdinal /\ last # NoOrdinal /\ count = total_analysis_days

\* (mutant: the span is taken as last - first, without the + 1)
IsContinuousSpanShort(first, last, count) ==
    first # NoOrdinal /\ last # NoOrdinal /\ count = last - first

\* (mutant: continuous as soon as there is a first and a last date)
IsContinuousAnyCount(first, last, count) ==
    first # NoOrdinal /\ last # NoOrdinal

\* is_data_continuous_from_start
IsContinuous(first, last, count) ==
    first # NoOrdinal /\ last # NoOrdinal /\ count = last - first + 1

\* total_utilization_sum / valid_utilization_days_count, else 0.0
OverallPerWindowDay(sum, count) ==
    [num |-> sum, den |-> total_analysis_days]

Overall(sum, count) ==
    IF count > 0 THEN [num |-> sum, den |-> count] ELSE [num |-> 0, den |-> 1]

OverallIsZero(o) == o.num = 0
OverallBelow(o, thr) == o.num < thr * o.den

\* round(overall_utilization_percent, 2), in hundredths (ties to even)
RoundHundredths(o) ==
    LET n == 100 * o.num
        q == n \div o.den
        r == n % o.den
    IN  IF 2 * r > o.den THEN q + 1
        ELSE IF 2 * r < o.den THEN q
        ELSE IF q % 2 = 0 THEN q ELSE q + 1

\* ------------------------------------------------------------------ expiry

\* (mutant: the month wraps but the year is not carried)
ExpiryYearMonthNoCarry(purchase, term) ==
    LET y0 == purchase.year + (term \div 12)
        m0 == purchase.month + (term % 12)
    IN  IF m0 > 12
        THEN [year |-> y0, month |-> ((m0 - 1) % 12) + 1]
        ELSE [year |-> y0, month |-> m0]

\* expiry_year, expiry_month
ExpiryYearMonth(purchase, term) ==
    LET y0 == purchase.year + (term \div 12)
        m0 == purchase.month + (term % 12)
    IN  IF m0 > 12
        THEN [year |-> y0 + ((m0 - 1) \div 12), month |-> ((m0 - 1) % 12) + 1]
        ELSE [year |-> y0, month |-> m0]

\* (mutant: on ValueError the day falls back to 28, whatever the month)
ExpiryDateDay28(purchase, term) ==
    LET ym == ExpiryYearMonth(purchase, term)
    IN  IF IsValidDate(ym.year, ym.month, purchase.day)
        THEN MkDate(ym.year, ym.month, purchase.day)
        ELSE MkDate(ym.year, ym.month, 28)

\* date(expiry_year, expiry_month, purchase.day), and on ValueError the last
\* day of that month
ExpiryDate(purchase, term) ==
    LET ym == ExpiryYearMonth(purchase, term)
    IN  IF IsValidDate(ym.year, ym.month, purchase.day)
        THEN MkDate(ym.year, ym.month, purchase.day)
        ELSE MkDate(ym.year, ym.month, DaysInMonth(ym.year, ym.month))

\* expiry_date_ri_obj: None unless purchase date and term are there; the
\* arithmetic on the "N/A" placeholder raises, which is caught.
ExpiryOf(purchase, term) ==
    IF purchase # NoDate /\ term # NoneTerm
    THEN (IF term = TermNA THEN NoDate ELSE ExpiryDate(purchase, term))
    ELSE NoDate

\* days_remaining
DaysRemainingOf(expiry, endOrd) ==
    IF expiry = NoDate THEN -1 ELSE ToOrdinal(expiry) - endOrd

\* (mutant: the warning period ends one day early)
IsExpiringSoonStrict(expiry, dr, warn) ==
    expiry # NoDate /\ dr < warn /\ dr >= 0

\* is_expiring_soon
IsExpiringSoon(expiry, dr, warn) == expiry # NoDate /\ dr <= warn /\ dr >= 0

\* (mutant: expired only from the second day after the expiry date)
ExpiryStatusOfGraceDay(expiry, endOrd, soon) ==
    IF expiry # NoDate
    THEN (IF endOrd > ToOrdinal(expiry) + 1 THEN "expired"
          ELSE IF soon THEN "expiring_soon" ELSE "active")
    ELSE "active"

\* (mutant: expired only after the expiry date, not on it)
ExpiryStatusOfAfter(expiry, endOrd, soon) ==
    IF expiry # NoDate
    THEN (IF endOrd > ToOrdinal(expiry) THEN "expired"
          ELSE IF soon THEN "expiring_soon" ELSE "active")
    ELSE "active"

\* expiry_status
ExpiryStatusOf(expiry, endOrd, soon) ==
    IF expiry # NoDate
    THEN (IF endOrd >= ToOrdinal(expiry) THEN "expired"
          ELSE IF soon THEN "expiring_soon" ELSE "active")
    ELSE "active"

\* ------------------------------------------------------------------ status

\* (mutant: the utilization rules are tried before the partial-data rule)
StatusOfUtilizationFirst(missing, total, continuous, overall, thr) ==
    IF missing = total THEN "No Data"
    ELSE IF OverallIsZero(overall) THEN "unused"
    ELSE IF missing > 0 /\ ~continuous THEN "Partial Data"
    ELSE IF OverallBelow(overall, thr) THEN "underutilized"
    ELSE "healthy"

\* (mutant: no status is set in advance, the last branch leaves none)
StatusOfNoDefault(missing, total, continuous, overall, thr) ==
    IF missing = total THEN "No Data"
    ELSE IF missing > 0 /\ ~continuous THEN "Partial Data"
    ELSE IF OverallIsZero(overall) THEN "unused"
    ELSE IF OverallBelow(overall, thr) THEN "underutilized"
    ELSE "N/A"

\* (mutant: an expired reservation is reported as such in the status)
StatusOfExpiredFirst(missing, total, continuous, overall, thr) ==
    IF expiry_status = "expired" THEN "expired"
    ELSE IF missing = total THEN "No Data"
    ELSE IF missing > 0 /\ ~continuous THEN "Partial Data"
    ELSE IF OverallIsZero(overall) THEN "unused"
    ELSE IF OverallBelow(overall, thr) THEN "underutilized"
    ELSE "healthy"

StatusOf(missing, total, continuous, overall, thr) ==
    IF missing = total THEN "No Data"
    ELSE IF missing > 0 /\ ~continuous THEN "Partial Data"
    ELSE IF OverallIsZero(overall) THEN "unused"
    ELSE IF OverallBelow(overall, thr) THEN "underutilized"
    ELSE "healthy"

\* ------------------------------------------------------------------- alert

UnusedClause(n) == "Unused for " \o ToString(n) \o " consecutive day(s)"
UnderutilizedClause(n) ==
    "Underutilized for " \o ToString(n) \o " consecutive day(s)"
ExpiresClause(n) == "Expires in " \o ToString(n) \o " day(s)"

\* (mutant: the unused clause needs more than min_unused days)
AlertClausesStrict(maxUnder, maxUnused, minUnder, minUnused, soon, dr) ==
    LET a1 == IF maxUnused > minUnused
              THEN <<UnusedClause(maxUnused)>> ELSE <<>>
        a2 == IF maxUnder >= minUnder
              THEN Append(a1, UnderutilizedClause(maxUnder)) ELSE a1
    IN  IF soon /\ dr >= 0 THEN Append(a2, ExpiresClause(dr)) ELSE a2

\* the list alerts of generate_alert
AlertClauses(maxUnder, maxUnused, minUnder, minUnused, soon, dr) ==
    LET a1 == IF maxUnused >= minUnused
              THEN <<UnusedClause(maxUnused)>> ELSE <<>>
        a2 == IF maxUnder >= minUnder
              THEN Append(a1, UnderutilizedClause(maxUnder)) ELSE a1
    IN  IF soon /\ dr >= 0 THEN Append(a2, ExpiresClause(dr)) ELSE a2

\* "; ".join(alerts) if alerts else ""
RECURSIVE JoinAlerts(_)
JoinAlerts(s) ==
    IF s = <<>> THEN ""
    ELSE IF Len(s) = 1 THEN s[1]
    ELSE s[1] \o "; " \o JoinAlerts(Tail(s))

generate_alert(maxUnder, maxUnused, minUnder, minUnused, soon, dr) ==
    JoinAlerts(AlertClauses(maxUnder, maxUnused, minUnder, minUnused, soon, dr))

\* ------------------------------------------------------------------ inputs

\* default_sku, default_region (the arguments' values in a local run)
default_sku == "unknown"
default_region == "unknown"

\* One fetched row of ri_usage, as stored in ri_grouped_data[id][report_date].
Row(u, prof) ==
    [utilization_percent |-> u, email_recipient |-> "ops@example.com",
     sku_name |-> "Standard_D2s_v3", region |-> "eastus",
     term_months |-> prof.term_months, purchase_date |-> prof.purchase_date]

Profile(purchase, term) == [purchase_date |-> purchase, term_months |-> term]

\* The day -> row maps an identity can have: the query fetches only rows with
\* report_date BETWEEN start AND end, and an identity is in ri_grouped_data
\* only once a row of it was stored, so a map is never empty.
DailyMaps(start, end, rows) ==
    UNION {[D -> rows] : D \in (SUBSET (start..end)) \ {{}}}

\* The single identity of the runs below.
Ident == <<"sub-1", "ri-1">>

\* usage_quantity values
Utils == {0, 50, 90}

\* ------------------------------------------------------------ fetched rows

\* A 'YYYY-MM-DD' text is kept as its three number fields (they need not name
\* a calendar day); a NULL column is NoDate. A usage_quantity that is NULL is
\* NoneQuantity.
NoneQuantity == -1

\* One row of raw_data, in the order of the SELECT list.
RawRow(id, report_date, u, term, purchase) ==
    [subscription_id |-> id[1], resource_id |-> id[2], usage_quantity |-> u,
     report_date |-> report_date, email_recipient |-> "ops@example.com",
     sku_name |-> "Standard_D2s_v3", region |-> "eastus",
     term_months |-> term, purchase_date |-> purchase]

IdOf(row) == <<row.subscription_id, row.resource_id>>

\* datetime.strptime(s, '%Y-%m-%d') returns for a text that names a calendar
\* day and raises for any other text and for None.
CanParse(s) == s # NoDate /\ IsValidDate(s.year, s.month, s.day)

\* ... .date() of the parsed report date, as the ordinal the walk counts in
ParseReportDate(s) == ToOrdinal(s)

\* what the grouping loop stores under ri_grouped_data[id][report_date]
Stored(row) ==
    [utilization_percent |-> row.usage_quantity,
     email_recipient |-> row.email_recipient,
     sku_name |-> row.sku_name, region |-> row.region,
     term_months |-> row.term_months, purchase_date |-> row.purchase_date]

\* The characters of a stored date text, as their codes: '-' sorts before
\* every digit.
Dash == 45
Digit(n) == 48 + n

Digits4(y) ==
    <<Digit(y \div 1000), Digit((y \div 100) % 10), Digit((y \div 10) % 10),
      Digit(y % 10)>>

\* A month or day field: two digits, or one when the text was written
\* without the leading zero.
DigitsOf(n, padded) ==
    IF padded \/ n >= 10 THEN <<Digit(n \div 10), Digit(n % 10)>>
    ELSE <<Digit(n)>>

\* The text 'Y-M-D' of d without leading zeros, for which strptime returns
\* the same day as for 'YYYY-MM-DD'.
Unpadded(d) ==
    [year |-> d.year, month |-> d.month, day |-> d.day, unpadded |-> TRUE]

IsPadded(d) == "unpadded" \notin DOMAIN d

\* The characters of the text kept in a TEXT column.
TextOf(d) ==
    Digits4(d.year) \o <<Dash>> \o DigitsOf(d.month, IsPadded(d))
        \o <<Dash>> \o DigitsOf(d.day, IsPadded(d))

\* a <= b for two texts: the first differing character decides, a prefix
\* sorts first.
RECURSIVE CharsLE(_, _)
CharsLE(a, b) ==
    IF a = <<>> THEN TRUE
    ELSE IF b = <<>> THEN FALSE
    ELSE IF Head(a) # Head(b) THEN Head(a) < Head(b)
    ELSE CharsLE(Tail(a), Tail(b))

\* WHERE report_date BETWEEN ? AND ?: a comparison of texts, which for
\* zero-padded fields is the comparison of (year, month, day) field by field.
TextLE(a, b) == CharsLE(TextOf(a), TextOf(b))

\* The calendar day with ordinal o, looked for in the month of e and the one
\* before it (e is the last day of the window).
DateOfOrdinal(o, e) ==
    CHOOSE d \in {x \in [year : {e.year}, month : {e.month - 1, e.month},
                          day : 1..31] : IsValidDate(x.year, x.month, x.day)} :
        ToOrdinal(d) = o

\* The rows of one identity the query returns for the stored days of daily,
\* ORDER BY report_date.
RECURSIVE RowsOfDays(_, _, _, _)
RowsOfDays(id, daily, days, e) ==
    IF days = {} THEN <<>>
    ELSE LET o == CHOOSE x \in days : \A y \in days : x <= y
             r == daily[o]
         IN  <<RawRow(id, DateOfOrdinal(o, e), r.utilization_percent,
                      r.term_months, r.purchase_date)>>
                 \o RowsOfDays(id, daily, days \ {o}, e)

\* No import is running: the table holds the rows the query fetches.
ImportIdle ==
    /\ ri_usage = raw_data
    /\ data_left = <<>>
    /\ inserted = 0
    /\ skipped = 0
    /\ import_pc = "idle"
    /\ later_files = <<>>
    /\ import_log = <<>>

\* No sys.exit yet.
NoExit == -1

\* main.py is not running.
PipelineIdle ==
    /\ mode = "all"
    /\ main_pc = "idle"
    /\ running = "none"
    /\ stage_results = <<>>
    /\ stdout = <<>>
    /\ exit_code = NoExit

\* No blob has triggered import_to_db_func.
BlobIdle ==
    /\ conn_string = ""
    /\ header_map = {}
    /\ csv_reader = <<>>
    /\ row_num = 0
    /\ blob_pc = "idle"
    /\ rows_processed = 0
    /\ pg_pending = {}
    /\ pg_failed = FALSE
    /\ pg_ri_usage = {}
    /\ outputQueue = <<>>

HostIdle == PipelineIdle /\ BlobIdle

\* The values of the function's locals that a call finds: whatever the last
\* use of the names left, here their defaults.
LocalsAtEntry ==
    /\ current_underutilized_days_consecutive = 0
    /\ current_unused_days_consecutive = 0
    /\ max_underutilized_sequence = 0
    /\ max_unused_sequence = 0
    /\ total_utilization_sum = 0
    /\ valid_utilization_days_count = 0
    /\ total_underutilized_days_period_actual = 0
    /\ total_unused_days_period_actual = 0
    /\ data_payload = [sku_name |-> default_sku, region |-> default_region,
                       term_months |-> TermNA, email_recipient |-> "N/A",
                       purchase_date |-> NoDate]
    /\ missing_days_count = 0
    /\ first_actual_data_date_in_period = NoOrdinal
    /\ last_actual_data_date_in_period = NoOrdinal
    /\ current_date = analysis_period_start_date
    /\ is_data_continuous_from_start = FALSE
    /\ overall_utilization_percent = Overall(0, 0)
    /\ expiry_date_ri_obj = NoDate
    /\ is_expiring_soon = FALSE
    /\ days_remaining = -1
    /\ expiry_status = "active"
    /\ status = "healthy"
    /\ alerts = <<>>

InitWith(endDates, maxDays, utils, profiles, thresholds, warns, minUnders, minUnuseds) ==
    /\ \E e \in endDates, n \in 1..maxDays :
          /\ analysis_period_end_date = ToOrdinal(e)
          /\ analysis_period_start_date = ToOrdinal(e) - n + 1
    /\ min_util_threshold \in thresholds
    /\ expiry_warn_days \in warns
    /\ min_underutilized_days_for_alert \in minUnders
    /\ min_unused_days_for_alert \in minUnuseds
    /\ \E prof \in profiles :
          ri_grouped_data \in
              [{Ident} -> DailyMaps(analysis_period_start_date,
                                    analysis_period_end_date,
                                    {Row(u, prof) : u \in utils})]
    /\ \E e \in endDates :
          /\ analysis_period_end_date = ToOrdinal(e)
          /\ raw_data = RowsOfDays(Ident, ri_grouped_data[Ident],
                                   DOMAIN ri_grouped_data[Ident], e)
    /\ ImportIdle
    /\ rows_left = <<>>
    /\ later_inputs = <<>>
    /\ earlier_outputs = <<>>
    /\ todo = <<Ident>>
    /\ pc = "next_ri"
    /\ cur = Ident
    /\ LocalsAtEntry
    /\ HostIdle
    /\ aggregated_results = <<>>

\* ---- the calls that start at the fetched rows

\* A second identity of the same subscription.
Ident2 == <<"sub-1", "ri-2">>
Idents == {Ident, Ident2}

\* ORDER BY subscription_id, resource_id, report_date
IdRank(id) == IF id = Ident THEN 1 ELSE 2
RowLess(a, b) ==
    \/ IdRank(IdOf(a)) < IdRank(IdOf(b))
    \/ /\ IdOf(a) = IdOf(b)
       /\ a.report_date # b.report_date
       /\ TextLE(a.report_date, b.report_date)

\* The window of these calls: two days across the end of February 2024.
RowsStart == MkDate(2024, 2, 29)
RowsEnd == MkDate(2024, 3, 1)

\* WHERE report_date BETWEEN ? AND ?
InWindowText(row) ==
    TextLE(RowsStart, row.report_date) /\ TextLE(row.report_date, RowsEnd)

RowsPurchase == MkDate(2023, 6, 15)

\* Rows that parse: either identity, either day, unused or well used.
CleanRows ==
    {RawRow(id, d, u, 12, RowsPurchase) :
        id \in Idents, d \in {RowsStart, RowsEnd}, u \in {0, 90}}

SeqsUpTo(S, n) == UNION {[1..k -> S] : k \in 0..n}

\* The row lists the query can return out of rows: at most n rows, one per
\* (subscription_id, resource_id, report_date) - the table's primary key -
\* in the ORDER BY order.
Fetched(rows, n) ==
    {s \in SeqsUpTo(rows, n) : \A i \in 1..(Len(s) - 1) : RowLess(s[i], s[i + 1])}

\* s with the row r put at its ORDER BY place
InsertSorted(s, r) ==
    LET k == Cardinality({i \in 1..Len(s) : RowLess(s[i], r)})
    IN  SubSeq(s, 1, k) \o <<r>> \o SubSeq(s, k + 1, Len(s))

\* Texts that name no calendar day; '2024-02-30' lies between the window's
\* two texts.
BadReportDate == MkDate(2024, 2, 30)
BadPurchaseDate == MkDate(2023, 2, 30)

\* Rows that do not parse: a report date or a purchase date that is no
\* calendar day, a usage_quantity that is no number.
MalformedRows ==
    {RawRow(id, BadReportDate, 90, 12, RowsPurchase) : id \in Idents}
        \cup {RawRow(id, d, 90, 12, BadPurchaseDate) :
                  id \in Idents, d \in {RowsStart, RowsEnd}}
        \cup {RawRow(id, d, NoneQuantity, 12, RowsPurchase) :
                  id \in Idents, d \in {RowsStart, RowsEnd}}

\* Rows with a NULL purchase_date or a NULL term_months.
MissingRows ==
    {RawRow(id, d, 90, 12, NoDate) : id \in Idents, d \in {RowsStart, RowsEnd}}
        \cup {RawRow(id, d, 90, NoneTerm, RowsPurchase) :
                  id \in Idents, d \in {RowsStart, RowsEnd}}

KeyOf(row) == <<IdOf(row), row.report_date>>

\* A call on the first row list of some member of inputs, the calls on its
\* other row lists still to come; the window and the settings are the same
\* for all of them.
InitCallsIn(start, end, thresholds, inputs) ==
    /\ analysis_period_start_date = ToOrdinal(start)
    /\ analysis_period_end_date = ToOrdinal(end)
    /\ min_util_threshold \in thresholds
    /\ expiry_warn_days = 90
    /\ min_underutilized_days_for_alert = 2
    /\ min_unused_days_for_alert = 1
    /\ \E in \in inputs :
          /\ raw_data = Head(in)
          /\ rows_left = Head(in)
          /\ later_inputs = Tail(in)
    /\ ImportIdle
    /\ earlier_outputs = <<>>
    /\ ri_grouped_data = <<>>
    /\ todo = <<>>
    /\ pc = "group"
    /\ cur = Ident
    /\ LocalsAtEntry
    /\ HostIdle
    /\ aggregated_results = <<>>

InitCalls(thresholds, inputs) ==
    InitCallsIn(RowsStart, RowsEnd, thresholds, inputs)

\* SpecMalformed: a fetched row list that holds one malformed or incomplete
\* row, then the same list without that row.
MalformedInputs ==
    UNION {{<<InsertSorted(s, r), s>> :
               r \in {x \in MalformedRows \cup MissingRows :
                         /\ InWindowText(x)
                         /\ \A i \in 1..Len(s) : KeyOf(s[i]) # KeyOf(x)}} :
           s \in Fetched(CleanRows, MaxRows - 1)}

InitMalformed == InitCalls({8}, MalformedInputs)

\* SpecTwice: two calls on the same fetched row list.
InitTwice ==
    InitCalls({0, 8}, {<<s, s>> : s \in Fetched(CleanRows, MaxRows)})

\* SpecPermuted: a fetched row list, then the same rows in another order
\* (what the query returns under another ORDER BY).
Reordered(s) ==
    {[i \in 1..Len(s) |-> s[p[i]]] : p \in Permutations(1..Len(s))}

InitPermuted ==
    InitCalls({8}, UNION {{<<s, t>> : t \in Reordered(s)} :
                             s \in Fetched(CleanRows, MaxRows)})

\* SpecDuplicates: rows in any order, some of them for the same identity and
\* day (the table's key is the text of the date, and '2024-03-01' and
\* '2024-3-1' parse to the same day), then the same list with every row
\* dropped that has a later row for its identity and day.
DuplicateRows ==
    {RawRow(Ident, d, u, 12, RowsPurchase) :
        d \in {RowsStart, RowsEnd}, u \in {0, 90}}
        \cup {RawRow(Ident2, RowsEnd, 90, 12, RowsPurchase)}

RECURSIVE DropEarlier(_)
DropEarlier(s) ==
    IF s = <<>> THEN <<>>
    ELSE IF \E j \in 2..Len(s) : KeyOf(s[j]) = KeyOf(s[1])
         THEN DropEarlier(Tail(s))
         ELSE <<s[1]>> \o DropEarlier(Tail(s))

InitDuplicates ==
    InitCalls({8}, {<<s, DropEarlier(s)>> : s \in SeqsUpTo(DuplicateRows, MaxRows)})

\* SpecAttributes: one identity whose rows carry different attributes from
\* day to day, some with a NULL sku_name and region, in a window of three
\* days and in every order.
NoneText == "<NULL>"

Attrs(sku, region, term, purchase, email) ==
    [sku_name |-> sku, region |-> region, term_months |-> term,
     purchase_date |-> purchase, email_recipient |-> email]

AttrRow(id, report_date, u, a) ==
    [subscription_id |-> id[1], resource_id |-> id[2], usage_quantity |-> u,
     report_date |-> report_date, email_recipient |-> a.email_recipient,
     sku_name |-> a.sku_name, region |-> a.region,
     term_months |-> a.term_months, purchase_date |-> a.purchase_date]

AttrChoices ==
    {Attrs("Standard_D2s_v3", "eastus", 12, MkDate(2023, 6, 15),
           "ops@example.com"),
     Attrs("Standard_E4s_v5", "westeurope", 36, MkDate(2021, 3, 10),
           "fin@example.com"),
     Attrs(NoneText, NoneText, 12, MkDate(2023, 6, 15), "ops@example.com")}

AttrStart == MkDate(2024, 2, 28)

AttrRows ==
    {AttrRow(Ident, d, 90, a) :
        d \in {AttrStart, RowsStart, RowsEnd}, a \in AttrChoices}

InitAttributes ==
    InitCallsIn(AttrStart, RowsEnd, {8},
                {<<s>> : s \in {t \in SeqsUpTo(AttrRows, MaxRows) :
                                  \A i, j \in 1..Len(t) :
                                      KeyOf(t[i]) = KeyOf(t[j]) => i = j}})

\* SpecOtherExpiry: a call on a fetched row list, then a call on the same
\* rows with another purchase date and term for the first identity and with
\* another expiry_warn_days.
InitOtherExpiry ==
    InitCalls({8}, {<<s>> : s \in Fetched(CleanRows, MaxRows)})

\* purchase dates and terms whose expiry lies on the window's last day, two
\* weeks after it, months after it, and nowhere
OtherExpiryProfiles ==
    {Profile(MkDate(2023, 3, 1), 12), Profile(MkDate(2023, 3, 15), 12),
     Profile(MkDate(2022, 11, 30), 36), Profile(RowsPurchase, NoneTerm)}

OtherWarnDays == {0, 30, 90}

\* rows with the purchase date and term of the rows of id replaced
WithExpiry(rows, id, prof) ==
    [i \in 1..Len(rows) |->
        IF IdOf(rows[i]) = id
        THEN [rows[i] EXCEPT !.purchase_date = prof.purchase_date,
                             !.term_months = prof.term_months]
        ELSE rows[i]]

\* SpecTexts: a call on what the query selects out of a table whose report
\* dates were stored as 'YYYY-MM-DD' or without the leading zeros; the
\* window runs from the end of September into October.
TextStart == MkDate(2024, 9, 30)
TextEnd == MkDate(2024, 10, 1)

TextRows ==
    {RawRow(id, d, u, 12, RowsPurchase) :
        id \in Idents, d \in {TextStart, TextEnd}, u \in {0, 90}}
        \cup {RawRow(id, Unpadded(d), 90, 12, RowsPurchase) :
                  id \in Idents,
                  d \in {MkDate(2024, 1, 15), MkDate(2024, 10, 1)}}

\* SELECT ... FROM ri_usage WHERE report_date BETWEEN ? AND ? ORDER BY ...,
\* on a table already in the ORDER BY order; a NULL report_date is not
\* between anything.
SelectRows(table, start, end) ==
    LET Between(r) == /\ r.report_date # NoDate
                      /\ TextLE(start, r.report_date)
                      /\ TextLE(r.report_date, end)
    IN  SelectSeq(table, Between)

\* A call with one of the windows <<start, end>> on what the query selects
\* out of a table made of rows.
InitSelect(windows, rows) ==
    /\ \E w \in windows :
          /\ analysis_period_start_date = ToOrdinal(w[1])
          /\ analysis_period_end_date = ToOrdinal(w[2])
          /\ ri_usage \in Fetched(rows, MaxRows)
          /\ raw_data = SelectRows(ri_usage, w[1], w[2])
    /\ min_util_threshold = 8
    /\ expiry_warn_days = 90
    /\ min_underutilized_days_for_alert = 2
    /\ min_unused_days_for_alert = 1
    /\ rows_left = raw_data
    /\ later_inputs = <<>>
    /\ earlier_outputs = <<>>
    /\ data_left = <<>>
    /\ inserted = 0
    /\ skipped = 0
    /\ import_pc = "idle"
    /\ later_files = <<>>
    /\ import_log = <<>>
    /\ ri_grouped_data = <<>>
    /\ todo = <<>>
    /\ pc = "group"
    /\ cur = Ident
    /\ LocalsAtEntry
    /\ HostIdle
    /\ aggregated_results = <<>>

InitTexts == InitSelect({<<TextStart, TextEnd>>}, TextRows)

\* SpecWalks: every window that starts and ends on one of three days, the
\* windows that end before they start included, on tables of zero-padded
\* rows of two identities; the function runs on until it returns.
WalkDays == {MkDate(2024, 2, 28), RowsStart, RowsEnd}

InitWalks == InitSelect(WalkDays \X WalkDays, CleanRows)

\* SpecImport: import_to_db.py run twice on the same file, the table new and
\* empty before the first run. An entry of the file has all nine keys, or
\* lacks one; its report_date may be null.
Entry(row) == [keys |-> TRUE, row |-> row]
IncompleteEntry(row) == [keys |-> FALSE, row |-> row]

ImportEntries ==
    {Entry(RawRow(id, d, u, 12, RowsPurchase)) :
        id \in Idents, d \in {RowsEnd, NoDate}, u \in {0, 90}}
        \cup {IncompleteEntry(RawRow(Ident, RowsEnd, 90, 12, RowsPurchase))}

InitImport ==
    /\ analysis_period_start_date = ToOrdinal(RowsStart)
    /\ analysis_period_end_date = ToOrdinal(RowsEnd)
    /\ min_util_threshold = 8
    /\ expiry_warn_days = 90
    /\ min_underutilized_days_for_alert = 5
    /\ min_unused_days_for_alert = 3
    /\ raw_data = <<>>
    /\ rows_left = <<>>
    /\ later_inputs = <<>>
    /\ earlier_outputs = <<>>
    /\ ri_grouped_data = <<>>
    /\ todo = <<>>
    /\ pc = "idle"
    /\ cur = Ident
    /\ LocalsAtEntry
    /\ HostIdle
    /\ aggregated_results = <<>>
    /\ ri_usage = <<>>
    /\ \E data \in SeqsUpTo(ImportEntries, MaxEntries) :
          /\ data_left = data
          /\ later_files = <<data>>
    /\ inserted = 0
    /\ skipped = 0
    /\ import_pc = "import"
    /\ import_log = <<>>

\* Spec: every window of up to MaxDays days, every day absent or present with
\* each utilization, the thresholds 0, 0.5 and 0.8, the alert settings of a
\* local run.
WalkProfiles ==
    {Profile(MkDate(2024, 1, 31), 1), Profile(MkDate(2023, 6, 15), 12)}

Init ==
    InitWith({MkDate(2024, 3, 1)}, MaxDays, Utils, WalkProfiles,
             {0, 5, 8}, {90}, {5}, {3})

\* SpecExpiry: purchase dates, terms, window ends and warning periods.
PurchaseDates ==
    {MkDate(y, m, d) : y \in {2023, 2024}, m \in {1, 2, 6, 11, 12},
                       d \in {1, 28, 29, 30, 31}}
        \cap {x \in [year : {2023, 2024}, month : 1..12, day : 1..31] :
                 IsValidDate(x.year, x.month, x.day)}

Terms == {NoneTerm, 0, 1, 11, 12, 13, 36}

ExpiryProfiles == {Profile(p, t) : p \in PurchaseDates, t \in Terms}

EndDates ==
    {MkDate(2024, 2, 27), MkDate(2024, 2, 28), MkDate(2024, 2, 29),
     MkDate(2024, 3, 1)}

InitExpiry ==
    InitWith(EndDates, MaxExpiryDays, {90}, ExpiryProfiles,
             {8}, {0, 1, 30}, {5}, {3})

\* SpecAlert: the alert thresholds against every short walk.
AlertProfiles ==
    {Profile(MkDate(2024, 1, 31), 1), Profile(MkDate(2024, 2, 1), 1),
     Profile(MkDate(2023, 3, 15), 12), Profile(MkDate(2023, 3, 15), NoneTerm)}

InitAlert ==
    InitWith({MkDate(2024, 3, 1)}, MaxAlertDays, Utils, AlertProfiles,
             {8}, {90}, {1, 2, 4}, {1, 2, 4})

\* ----------------------------------------------------------------- actions

SetMin(S) == CHOOSE x \in S : \A y \in S : x <= y
SetMax(S) == CHOOSE x \in S : \A y \in S : x >= y

\* (mutant: only the days before the last row count as missing)
MissingDaysBeforeLast(expected, actual) ==
    Cardinality({d \in expected \ actual : \E a \in actual : d < a})

\* missing_dates = sorted(list(expected_dates - actual_dates_in_data)) and
\* its len()
MissingDays(expected, actual) == Cardinality(expected \ actual)

\* (mutant: the totals and the sum go on from where the identity before
\* left them)
BeginRIKeepsTotals ==
    /\ pc = "next_ri"
    /\ todo # <<>>
    /\ cur' = Head(todo)
    /\ current_underutilized_days_consecutive' = 0
    /\ current_unused_days_consecutive' = 0
    /\ max_underutilized_sequence' = 0
    /\ max_unused_sequence' = 0
    /\ data_payload' = [sku_name |-> default_sku, region |-> default_region,
                        term_months |-> TermNA, email_recipient |-> "N/A",
                        purchase_date |-> NoDate]
    /\ LET actual == DOMAIN ri_grouped_data[Head(todo)]
           expected == analysis_period_start_date..analysis_period_end_date
       IN  /\ missing_days_count' = MissingDays(expected, actual)
           /\ first_actual_data_date_in_period' =
                 IF actual # {} THEN SetMin(actual) ELSE NoOrdinal
           /\ last_actual_data_date_in_period' =
                 IF actual # {} THEN SetMax(actual) ELSE NoOrdinal
    /\ current_date' = analysis_period_start_date
    /\ pc' = "walk"
    /\ UNCHANGED <<hostVars, argVars, callVars, ri_usage, importVars, todo, total_utilization_sum,
                   valid_utilization_days_count,
                   total_underutilized_days_period_actual,
                   total_unused_days_period_actual,
                   is_data_continuous_from_start,
                   overall_utilization_percent, expiryVars, status, alerts,
                   aggregated_results>>

\* for (sub_id, resource_id), daily_data in ri_grouped_data.items(): the
\* loop body up to the walk
BeginRI ==
    /\ pc = "next_ri"
    /\ todo # <<>>
    /\ cur' = Head(todo)
    /\ current_underutilized_days_consecutive' = 0
    /\ current_unused_days_consecutive' = 0
    /\ max_underutilized_sequence' = 0
    /\ max_unused_sequence' = 0
    /\ total_utilization_sum' = 0
    /\ valid_utilization_days_count' = 0
    /\ total_underutilized_days_period_actual' = 0
    /\ total_unused_days_period_actual' = 0
    /\ data_payload' = [sku_name |-> default_sku, region |-> default_region,
                        term_months |-> TermNA, email_recipient |-> "N/A",
                        purchase_date |-> NoDate]
    /\ LET actual == DOMAIN ri_grouped_data[Head(todo)]
           expected == analysis_period_start_date..analysis_period_end_date
       IN  /\ missing_days_count' = MissingDays(expected, actual)
           /\ first_actual_data_date_in_period' =
                 IF actual # {} THEN SetMin(actual) ELSE NoOrdinal
           /\ last_actual_data_date_in_period' =
                 IF actual # {} THEN SetMax(actual) ELSE NoOrdinal
    /\ current_date' = analysis_period_start_date
    /\ pc' = "walk"
    /\ UNCHANGED <<hostVars, argVars, callVars, ri_usage, importVars, todo, is_data_continuous_from_start,
                   overall_utilization_percent, expiryVars, status, alerts,
                   aggregated_results>>

\* one iteration of the while loop, current_date in daily_data
WalkPresent ==
    /\ pc = "walk"
    /\ current_date <= analysis_period_end_date
    /\ current_date \in DOMAIN daily_data
    /\ daily_data[current_date].utilization_percent # NoneQuantity
    /\ LET rec == daily_data[current_date]
           day_utilization == rec.utilization_percent
           under == UnderutilizedAfter(current_underutilized_days_consecutive,
                                       day_utilization, ThresholdPct)
           unused == UnusedAfter(current_unused_days_consecutive,
                                 day_utilization, ThresholdPct)
       IN  /\ data_payload' = PayloadFrom(rec)
           /\ current_underutilized_days_consecutive' = under
           /\ current_unused_days_consecutive' = unused
           /\ total_underutilized_days_period_actual' =
                 TotalUnderutilizedAfter(total_underutilized_days_period_actual,
                                         day_utilization, ThresholdPct)
           /\ total_unused_days_period_actual' =
                 TotalUnusedAfter(total_unused_days_period_actual,
                                  day_utilization, ThresholdPct)
           /\ max_underutilized_sequence' = Max(max_underutilized_sequence, under)
           /\ max_unused_sequence' = Max(max_unused_sequence, unused)
           /\ total_utilization_sum' = total_utilization_sum + day_utilization
           /\ valid_utilization_days_count' = valid_utilization_days_count + 1
    /\ current_date' = current_date + 1
    /\ UNCHANGED <<hostVars, argVars, callVars, ri_usage, importVars, todo, pc, cur, spanVars,
                   is_data_continuous_from_start, overall_utilization_percent,
                   expiryVars, status, alerts, aggregated_results>>

\* (mutant: the gap leaves the counter as it was)
GapKeep(c) == c

\* the counters after a day without a row
GapReset(c) == 0

\* (mutant: the missing day is counted among the days with data)
WalkMissingCountsDay ==
    /\ pc = "walk"
    /\ current_date <= analysis_period_end_date
    /\ current_date \notin DOMAIN daily_data
    /\ current_underutilized_days_consecutive' =
          GapReset(current_underutilized_days_consecutive)
    /\ current_unused_days_consecutive' =
          GapReset(current_unused_days_consecutive)
    /\ current_date' = current_date + 1
    /\ valid_utilization_days_count' = valid_utilization_days_count + 1
    /\ UNCHANGED <<hostVars, argVars, callVars, ri_usage, importVars, todo, pc, cur, spanVars,
                   max_underutilized_sequence, max_unused_sequence,
                   total_utilization_sum,
                   total_underutilized_days_period_actual,
                   total_unused_days_period_actual, data_payload,
                   is_data_continuous_from_start, overall_utilization_percent,
                   expiryVars, status, alerts, aggregated_results>>

\* (mutant: the branch for a date without a row does not move on to the
\* next date)
WalkMissingStays ==
    /\ pc = "walk"
    /\ current_date <= analysis_period_end_date
    /\ current_date \notin DOMAIN daily_data
    /\ current_underutilized_days_consecutive' =
          GapReset(current_underutilized_days_consecutive)
    /\ current_unused_days_consecutive' =
          GapReset(current_unused_days_consecutive)
    /\ UNCHANGED <<hostVars, argVars, callVars, ri_usage, importVars, todo, pc, cur, spanVars,
                   max_underutilized_sequence, max_unused_sequence,
                   total_utilization_sum, valid_utilization_days_count,
                   total_underutilized_days_period_actual,
                   total_unused_days_period_actual, data_payload,
                   current_date,
                   is_data_continuous_from_start, overall_utilization_percent,
                   expiryVars, status, alerts, aggregated_results>>

\* one iteration of the while loop, current_date not in daily_data
WalkMissing ==
    /\ pc = "walk"
    /\ current_date <= analysis_period_end_date
    /\ current_date \notin DOMAIN daily_data
    /\ current_underutilized_days_consecutive' =
          GapReset(current_underutilized_days_consecutive)
    /\ current_unused_days_consecutive' =
          GapReset(current_unused_days_consecutive)
    /\ current_date' = current_date + 1
    /\ UNCHANGED <<hostVars, argVars, callVars, ri_usage, importVars, todo, pc, cur, spanVars,
                   max_underutilized_sequence, max_unused_sequence,
                   total_utilization_sum, valid_utilization_days_count,
                   total_underutilized_days_period_actual,
                   total_unused_days_period_actual, data_payload,
                   is_data_continuous_from_start, overall_utilization_percent,
                   expiryVars, status, alerts, aggregated_results>>

\* after the walk: is_data_continuous_from_start, overall_utilization_percent
Continuity ==
    /\ pc = "walk"
    /\ current_date > analysis_period_end_date
    /\ is_data_continuous_from_start' =
          IsContinuous(first_actual_data_date_in_period,
                       last_actual_data_date_in_period,
                       valid_utilization_days_count)
    /\ overall_utilization_percent' =
          Overall(total_utilization_sum, valid_utilization_days_count)
    /\ pc' = "expiry"
    /\ UNCHANGED <<hostVars, argVars, callVars, ri_usage, importVars, todo, cur, walkVars, spanVars, expiryVars,
                   status, alerts, aggregated_results>>

\* expiry_date_ri_obj, days_remaining, is_expiring_soon, expiry_status
ComputeExpiry ==
    /\ pc = "expiry"
    /\ LET expiry == ExpiryOf(data_payload.purchase_date,
                              data_payload.term_months)
           dr == DaysRemainingOf(expiry, analysis_period_end_date)
           soon == IsExpiringSoon(expiry, dr, expiry_warn_days)
       IN  /\ expiry_date_ri_obj' = expiry
           /\ days_remaining' = dr
           /\ is_expiring_soon' = soon
           /\ expiry_status' =
                 ExpiryStatusOf(expiry, analysis_period_end_date, soon)
    /\ pc' = "status"
    /\ UNCHANGED <<hostVars, argVars, callVars, ri_usage, importVars, todo, cur, walkVars, spanVars,
                   is_data_continuous_from_start, overall_utilization_percent,
                   status, alerts, aggregated_results>>

\* status
ClassifyStatus ==
    /\ pc = "status"
    /\ status' = StatusOf(missing_days_count, total_analysis_days,
                          is_data_continuous_from_start,
                          overall_utilization_percent, ThresholdPct)
    /\ pc' = "alert"
    /\ UNCHANGED <<hostVars, argVars, callVars, ri_usage, importVars, todo, cur, walkVars, spanVars,
                   is_data_continuous_from_start, overall_utilization_percent,
                   expiryVars, alerts, aggregated_results>>

\* the dict appended to aggregated_results
ResultRecord ==
    [ri_id |-> cur[2],
     subscription_id |-> cur[1],
     sku_name |-> data_payload.sku_name,
     region |-> data_payload.region,
     purchase_date |-> FormatDate(data_payload.purchase_date),
     end_date |-> FormatDate(expiry_date_ri_obj),
     term_months |-> data_payload.term_months,
     utilization_percent_period |-> RoundHundredths(overall_utilization_percent),
     days_remaining |-> days_remaining,
     status |-> status,
     expiry_status |-> expiry_status,
     total_underutilized_days_period |-> total_underutilized_days_period_actual,
     total_unused_days_period |-> total_unused_days_period_actual,
     missing_days |-> missing_days_count,
     email_recipient |-> data_payload.email_recipient,
     alert |-> generate_alert(max_underutilized_sequence, max_unused_sequence,
                              min_underutilized_days_for_alert,
                              min_unused_days_for_alert,
                              is_expiring_soon, days_remaining),
     analysis_period_start |-> analysis_period_start_date,
     analysis_period_end |-> analysis_period_end_date,
     max_consecutive_underutilized_days |-> max_underutilized_sequence,
     max_consecutive_unused_days |-> max_unused_sequence]

\* generate_alert(...) and aggregated_results.append({...}); the loop then
\* moves to the next identity
EmitResult ==
    /\ pc = "alert"
    /\ alerts' = AlertClauses(max_underutilized_sequence, max_unused_sequence,
                              min_underutilized_days_for_alert,
                              min_unused_days_for_alert,
                              is_expiring_soon, days_remaining)
    /\ aggregated_results' = Append(aggregated_results, ResultRecord)
    /\ todo' = Tail(todo)
    /\ pc' = "next_ri"
    /\ UNCHANGED <<hostVars, argVars, callVars, ri_usage, importVars, cur, walkVars, spanVars,
                   is_data_continuous_from_start, overall_utilization_percent,
                   expiryVars, status>>

\* the loop over identities is exhausted: return aggregated_results
Finish ==
    /\ pc = "next_ri"
    /\ todo = <<>>
    /\ pc' = "done"
    /\ UNCHANGED <<hostVars, argVars, callVars, ri_usage, importVars, todo, cur, walkVars, spanVars,
                   is_data_continuous_from_start, overall_utilization_percent,
                   expiryVars, status, alerts, aggregated_results>>

Next ==
    \/ BeginRI
    \/ WalkPresent
    \/ WalkMissing
    \/ Continuity
    \/ ComputeExpiry
    \/ ClassifyStatus
    \/ EmitResult
    \/ Finish

\* ------------------------------------------- the grouping loop and the call

\* the days stored so far for an identity (the inner defaultdict)
DailyOf(g, id) == IF id \in DOMAIN g THEN g[id] ELSE <<>>

\* (mutant: the row replaces the days stored for its identity)
GroupStoreOneDay(g, row) ==
    LET id == IdOf(row)
        day == ParseReportDate(row.report_date)
    IN  (id :> (day :> Stored(row))) @@ g

\* (mutant: a day that is already stored keeps its first row)
GroupStoreFirstWins(g, row) ==
    LET id == IdOf(row)
        day == ParseReportDate(row.report_date)
    IN  (id :> (DailyOf(g, id) @@ (day :> Stored(row)))) @@ g

\* ri_grouped_data[(sub_id, res_id)][report_date_obj] = {...}
GroupStore(g, row) ==
    LET id == IdOf(row)
        day == ParseReportDate(row.report_date)
    IN  (id :> ((day :> Stored(row)) @@ DailyOf(g, id))) @@ g

\* for row in raw_data: both dates parse and the row is stored; a new
\* identity takes the next place in the order of ri_grouped_data.items()
GroupRow ==
    /\ pc = "group"
    /\ rows_left # <<>>
    /\ LET row == Head(rows_left)
       IN  /\ CanParse(row.report_date)
           /\ CanParse(row.purchase_date)
           /\ ri_grouped_data' = GroupStore(ri_grouped_data, row)
           /\ todo' = IF IdOf(row) \in DOMAIN ri_grouped_data
                      THEN todo ELSE Append(todo, IdOf(row))
    /\ rows_left' = Tail(rows_left)
    /\ UNCHANGED <<hostVars, analysis_period_start_date, analysis_period_end_date,
                   min_util_threshold, expiry_warn_days,
                   min_underutilized_days_for_alert, min_unused_days_for_alert,
                   raw_data, later_inputs, earlier_outputs, pc, cur,
                   ri_usage, importVars,
                   walkVars, spanVars, is_data_continuous_from_start,
                   overall_utilization_percent, expiryVars, status, alerts,
                   aggregated_results>>

\* for row in raw_data: strptime raises on the report date or the purchase
\* date; except Exception logs and re-raises, the call returns nothing
GroupRaise ==
    /\ pc = "group"
    /\ rows_left # <<>>
    /\ LET row == Head(rows_left)
       IN  ~CanParse(row.report_date) \/ ~CanParse(row.purchase_date)
    /\ pc' = "raised"
    /\ UNCHANGED <<hostVars, argVars, callVars, ri_usage, importVars, todo, cur, walkVars, spanVars,
                   is_data_continuous_from_start, overall_utilization_percent,
                   expiryVars, status, alerts, aggregated_results>>

\* the rows are exhausted: aggregated_results = [] and the window's dates
GroupDone ==
    /\ pc = "group"
    /\ rows_left = <<>>
    /\ pc' = "next_ri"
    /\ aggregated_results' = <<>>
    /\ UNCHANGED <<hostVars, argVars, callVars, ri_usage, importVars, todo, cur, walkVars, spanVars,
                   is_data_continuous_from_start, overall_utilization_percent,
                   expiryVars, status, alerts>>

\* if day_utilization < min_util_threshold * 100 with a usage_quantity that
\* is None: the comparison raises TypeError, after data_payload.update
WalkRaise ==
    /\ pc = "walk"
    /\ current_date <= analysis_period_end_date
    /\ current_date \in DOMAIN daily_data
    /\ daily_data[current_date].utilization_percent = NoneQuantity
    /\ data_payload' = PayloadFrom(daily_data[current_date])
    /\ pc' = "raised"
    /\ UNCHANGED <<hostVars, argVars, callVars, ri_usage, importVars, todo, cur,
                   current_underutilized_days_consecutive,
                   current_unused_days_consecutive,
                   max_underutilized_sequence, max_unused_sequence,
                   total_utilization_sum, valid_utilization_days_count,
                   total_underutilized_days_period_actual,
                   total_unused_days_period_actual, current_date, spanVars,
                   is_data_continuous_from_start, overall_utilization_percent,
                   expiryVars, status, alerts, aggregated_results>>

\* what the caller of a finished call has in hand
Outcome ==
    [rows |-> raw_data,
     raised |-> pc = "raised",
     results |-> IF pc = "raised" THEN <<>> ELSE aggregated_results]

\* analyze_ri_utilization_for_period is called again with the same window
\* and settings: the query fetches the next row list and ri_grouped_data is
\* a new defaultdict
CallAgain ==
    /\ pc \in {"done", "raised"}
    /\ later_inputs # <<>>
    /\ earlier_outputs' = Append(earlier_outputs, Outcome)
    /\ ri_usage' = Head(later_inputs)
    /\ raw_data' = Head(later_inputs)
    /\ rows_left' = Head(later_inputs)
    /\ later_inputs' = Tail(later_inputs)
    /\ ri_grouped_data' = <<>>
    /\ todo' = <<>>
    /\ pc' = "group"
    /\ UNCHANGED <<hostVars, importVars,
                   analysis_period_start_date, analysis_period_end_date,
                   min_util_threshold, expiry_warn_days,
                   min_underutilized_days_for_alert, min_unused_days_for_alert,
                   cur, walkVars, spanVars, is_data_continuous_from_start,
                   overall_utilization_percent, expiryVars, status, alerts,
                   aggregated_results>>

\* analyze_ri_utilization_for_period is called again with the same window,
\* threshold and alert settings, another expiry_warn_days, and the table
\* holding another purchase date and term for the first identity
CallWithOtherExpiry ==
    /\ pc = "done"
    /\ earlier_outputs = <<>>
    /\ earlier_outputs' = Append(earlier_outputs, Outcome)
    /\ \E prof \in OtherExpiryProfiles :
          /\ ri_usage' = WithExpiry(raw_data, Ident, prof)
          /\ raw_data' = WithExpiry(raw_data, Ident, prof)
          /\ rows_left' = WithExpiry(raw_data, Ident, prof)
    /\ expiry_warn_days' \in OtherWarnDays
    /\ ri_grouped_data' = <<>>
    /\ todo' = <<>>
    /\ pc' = "group"
    /\ UNCHANGED <<hostVars, importVars,
                   analysis_period_start_date, analysis_period_end_date,
                   min_util_threshold, min_underutilized_days_for_alert,
                   min_unused_days_for_alert, later_inputs,
                   cur, walkVars, spanVars, is_data_continuous_from_start,
                   overall_utilization_percent, expiryVars, status, alerts,
                   aggregated_results>>

\* calls on rows that all parse
NextCalls ==
    \/ GroupRow
    \/ GroupDone
    \/ CallAgain
    \/ Next

\* one call on rows that all parse
NextOnce ==
    \/ GroupRow
    \/ GroupDone
    \/ Next

\* two calls that differ in the expiry inputs
NextOtherExpiry ==
    \/ CallWithOtherExpiry
    \/ NextOnce

\* calls on rows that may be malformed
NextRaising ==
    \/ GroupRaise
    \/ WalkRaise
    \/ NextCalls

\* ------------------------------------------------------------ the import

\* the variables of the analysis
analysisVars ==
    <<argVars, todo, pc, cur, walkVars, spanVars,
      is_data_continuous_from_start, overall_utilization_percent,
      expiryVars, status, alerts, aggregated_results, callVars>>

\* PRIMARY KEY (subscription_id, resource_id, report_date) of a table that
\* is not WITHOUT ROWID: the insert fails with IntegrityError when a stored
\* row has the same three values, none of them NULL (sqlite takes NULLs in
\* a primary key and holds them distinct from one another).
KeyConflicts(table, row) ==
    /\ row.report_date # NoDate
    /\ \E i \in 1..Len(table) : KeyOf(table[i]) = KeyOf(row)

\* for entry in data: the INSERT succeeds, inserted += 1
ImportInsert ==
    /\ import_pc = "import"
    /\ data_left # <<>>
    /\ Head(data_left).keys
    /\ ~KeyConflicts(ri_usage, Head(data_left).row)
    /\ ri_usage' = Append(ri_usage, Head(data_left).row)
    /\ inserted' = inserted + 1
    /\ data_left' = Tail(data_left)
    /\ UNCHANGED <<hostVars, analysisVars, skipped, import_pc, later_files, import_log>>

\* for entry in data: except sqlite3.IntegrityError: skipped += 1
ImportSkipExisting ==
    /\ import_pc = "import"
    /\ data_left # <<>>
    /\ Head(data_left).keys
    /\ KeyConflicts(ri_usage, Head(data_left).row)
    /\ skipped' = skipped + 1
    /\ data_left' = Tail(data_left)
    /\ UNCHANGED <<hostVars, analysisVars, ri_usage, inserted, import_pc, later_files,
                   import_log>>

\* for entry in data: except KeyError: skipped += 1
ImportSkipKeyError ==
    /\ import_pc = "import"
    /\ data_left # <<>>
    /\ ~Head(data_left).keys
    /\ skipped' = skipped + 1
    /\ data_left' = Tail(data_left)
    /\ UNCHANGED <<hostVars, analysisVars, ri_usage, inserted, import_pc, later_files,
                   import_log>>

\* conn.commit(), conn.close() and the line with the two counters
ImportCommit ==
    /\ import_pc = "import"
    /\ data_left = <<>>
    /\ import_pc' = "committed"
    /\ UNCHANGED <<hostVars, analysisVars, ri_usage, data_left, inserted, skipped,
                   later_files, import_log>>

\* import_to_db.py is run again: import_json_daily_data on the next file
ImportNextFile ==
    /\ import_pc = "committed"
    /\ later_files # <<>>
    /\ import_log' = Append(import_log, [table |-> ri_usage,
                                         inserted |-> inserted,
                                         skipped |-> skipped])
    /\ data_left' = Head(later_files)
    /\ later_files' = Tail(later_files)
    /\ inserted' = 0
    /\ skipped' = 0
    /\ import_pc' = "import"
    /\ UNCHANGED <<hostVars, analysisVars, ri_usage>>

\* -------------------------------------------------------------- main.py

\* The analysis function and the import are not running, the table is empty.
AnalysisIdle ==
    /\ analysis_period_start_date = ToOrdinal(RowsStart)
    /\ analysis_period_end_date = ToOrdinal(RowsEnd)
    /\ min_util_threshold = 8
    /\ expiry_warn_days = 90
    /\ min_underutilized_days_for_alert = 5
    /\ min_unused_days_for_alert = 3
    /\ raw_data = <<>>
    /\ rows_left = <<>>
    /\ later_inputs = <<>>
    /\ earlier_outputs = <<>>
    /\ ri_grouped_data = <<>>
    /\ todo = <<>>
    /\ pc = "idle"
    /\ cur = Ident
    /\ LocalsAtEntry
    /\ aggregated_results = <<>>
    /\ ImportIdle

\* choices=["all", "import", "analyze", "send"]
Modes == {"all", "import", "analyze", "send"}

\* The three stages in the order of main's if statements, and where main
\* goes after each.
Stages == <<"import", "analyze", "send">>

AfterStage(stage) ==
    IF stage = "import" THEN "analyze"
    ELSE IF stage = "analyze" THEN "send" ELSE "done"

\* cmd and description of the run_command call of a stage
Description(stage) ==
    IF stage = "import" THEN "Import RI JSONs to DB"
    ELSE IF stage = "analyze" THEN "Analyze RI Utilization"
    ELSE "Send Email Reports"

\* What a stage's process can end with: return code 0, or a code that is
\* not 0 (an exit status, or minus the number of the signal that ended it),
\* and the text it wrote.
FailCodes == {1, 2, -9}
StageTexts == {"", "ok"}

\* SpecPipeline: main.py started in any mode.
InitPipeline ==
    /\ AnalysisIdle
    /\ BlobIdle
    /\ mode \in Modes
    /\ main_pc = "import"
    /\ running = "none"
    /\ stage_results = <<>>
    /\ stdout = <<>>
    /\ exit_code = NoExit

\* if args.mode in ("all", stage): run_command(...) prints the description
\* and starts the stage's process
StartStage ==
    /\ main_pc \in {"import", "analyze", "send"}
    /\ running = "none"
    /\ mode \in {"all", main_pc}
    /\ running' = main_pc
    /\ stdout' = Append(stdout, Description(main_pc) \o "...")
    /\ UNCHANGED <<analysisVars, ri_usage, importVars, blobVars, mode,
                   main_pc, stage_results, exit_code>>

\* if args.mode in ("all", stage) is false
SkipStage ==
    /\ main_pc \in {"import", "analyze", "send"}
    /\ running = "none"
    /\ mode \notin {"all", main_pc}
    /\ main_pc' = AfterStage(main_pc)
    /\ UNCHANGED <<analysisVars, ri_usage, importVars, blobVars, mode,
                   running, stage_results, stdout, exit_code>>

\* (mutant: after a stage that failed main goes on with the next stage)
StageFailsGoesOn ==
    /\ running # "none"
    /\ \E rc \in FailCodes, err \in StageTexts :
          /\ stage_results' =
                Append(stage_results, [stage |-> running, returncode |-> rc])
          /\ stdout' = stdout \o <<"Error running " \o Description(running),
                                   err>>
    /\ main_pc' = AfterStage(main_pc)
    /\ running' = "none"
    /\ UNCHANGED <<analysisVars, ri_usage, importVars, blobVars, mode,
                   exit_code>>

\* run_command: result.returncode != 0, the error and the stage's stderr are
\* printed and sys.exit(result.returncode) ends main
StageFails ==
    /\ running # "none"
    /\ \E rc \in FailCodes, err \in StageTexts :
          /\ stage_results' =
                Append(stage_results, [stage |-> running, returncode |-> rc])
          /\ stdout' = stdout \o <<"Error running " \o Description(running),
                                   err>>
          /\ exit_code' = rc
    /\ main_pc' = "exited"
    /\ running' = "none"
    /\ UNCHANGED <<analysisVars, ri_usage, importVars, blobVars, mode>>

\* run_command: result.returncode == 0, the stage's stdout is printed and
\* main goes on
StageSucceeds ==
    /\ running # "none"
    /\ \E out \in StageTexts :
          stdout' = Append(stdout, out)
    /\ stage_results' =
          Append(stage_results, [stage |-> running, returncode |-> 0])
    /\ main_pc' = AfterStage(main_pc)
    /\ running' = "none"
    /\ UNCHANGED <<analysisVars, ri_usage, importVars, blobVars, mode,
                   exit_code>>

\* print("Done."); main returns and the interpreter exits with status 0
PrintDone ==
    /\ main_pc = "done"
    /\ stdout' = Append(stdout, "Done.")
    /\ main_pc' = "returned"
    /\ exit_code' = 0
    /\ UNCHANGED <<analysisVars, ri_usage, importVars, blobVars, mode,
                   running, stage_results>>

NextPipeline ==
    \/ StartStage
    \/ SkipStage
    \/ StageFails
    \/ StageSucceeds
    \/ PrintDone

\* ---------------------------------------------------- import_to_db_func

\* required_columns
RequiredColumns ==
    {"subscription_id", "ri_id", "sku_name", "region", "purchase_date",
     "term_months", "utilization_percent", "email_recipient"}

\* One CSV row after the header: whether it has as many cells as the header,
\* and the texts of the cells that are converted.
CsvRow(ri, cells, u, purchase, term) ==
    [subscription_id |-> "sub-1", ri_id |-> ri, enough_cells |-> cells,
     utilization_percent |-> u, purchase_date |-> purchase,
     term_months |-> term]

\* float(usage_quantity_str) if usage_quantity_str else 0.0: the texts are
\* "90", "" and one that is no number.
FloatRaises(text) == text \notin {"90", ""}
FloatOf(text) == IF text = "90" THEN 90 ELSE 0

\* int(term_months_str) if term_months_str.isdigit() else 0
TermOf(text) == IF text = "12" THEN 12 ELSE 0

\* the conversions of lines 196-207 raise ValueError
RowValueError(row) ==
    FloatRaises(row.utilization_percent) \/ ~CanParse(row.purchase_date)

\* report_date, parsed from the blob's name
BlobName == "ri-usage-2024-03-01.csv"
BlobReportDate == "2024-03-01"

\* the values given to the INSERT
PgRow(row) ==
    [subscription_id |-> row.subscription_id, resource_id |-> row.ri_id,
     usage_quantity |-> FloatOf(row.utilization_percent),
     usage_start |-> FormatDate(row.purchase_date),
     report_date |-> BlobReportDate,
     term_months |-> TermOf(row.term_months)]

\* PRIMARY KEY (subscription_id, resource_id, report_date)
PgKey(r) == <<r.subscription_id, r.resource_id, r.report_date>>

\* The rows a blob can hold: complete ones of two RIs, one with an empty
\* utilization and a term that is no number, one with too few cells, one
\* with a utilization that is no number, one with a purchase date that is
\* no calendar day.
CsvRows ==
    {CsvRow(ri, TRUE, "90", RowsPurchase, "12") : ri \in {"ri-1", "ri-2"}}
        \cup {CsvRow("ri-2", TRUE, "", RowsPurchase, "N/A"),
              CsvRow("ri-1", FALSE, "90", RowsPurchase, "12"),
              CsvRow("ri-1", TRUE, "abc", RowsPurchase, "12"),
              CsvRow("ri-1", TRUE, "90", BadPurchaseDate, "12")}

\* SpecBlob: one invocation of main for a blob; the connection string is
\* set or not, the header has every required column or lacks term_months,
\* the table is empty or holds a row of ri-1 for the blob's date.
InitBlob ==
    /\ AnalysisIdle
    /\ PipelineIdle
    /\ conn_string \in {"", "Host=db;Database=ri"}
    /\ header_map \in {RequiredColumns, RequiredColumns \ {"term_months"}}
    /\ csv_reader \in SeqsUpTo(CsvRows, MaxCsvRows)
    /\ row_num = 1
    /\ blob_pc = "start"
    /\ rows_processed = 0
    /\ pg_pending = {}
    /\ pg_failed = FALSE
    /\ pg_ri_usage \in
          {{}, {PgRow(CsvRow("ri-1", TRUE, "", RowsPurchase, "12"))}}
    /\ outputQueue = <<>>

\* main has ended with an exception, which the except clauses at lines
\* 241-246 let through.
BlobRaised == blob_pc \in {"raised ValueError", "raised psycopg2.Error"}

\* if not conn_string: raise ValueError, re-raised at line 246
BlobNoConnString ==
    /\ blob_pc = "start"
    /\ conn_string = ""
    /\ blob_pc' = "raised ValueError"
    /\ UNCHANGED <<analysisVars, ri_usage, importVars, pipeVars, conn_string,
                   header_map, csv_reader, row_num, rows_processed,
                   pg_pending, pg_failed, pg_ri_usage, outputQueue>>

\* psycopg2.connect and create_table return
BlobConnect ==
    /\ blob_pc = "start"
    /\ conn_string # ""
    /\ blob_pc' = "header"
    /\ UNCHANGED <<analysisVars, ri_usage, importVars, pipeVars, conn_string,
                   header_map, csv_reader, row_num, rows_processed,
                   pg_pending, pg_failed, pg_ri_usage, outputQueue>>

\* psycopg2.connect or create_table raises, re-raised at line 243
BlobConnectRaises ==
    /\ blob_pc = "start"
    /\ conn_string # ""
    /\ blob_pc' = "raised psycopg2.Error"
    /\ UNCHANGED <<analysisVars, ri_usage, importVars, pipeVars, conn_string,
                   header_map, csv_reader, row_num, rows_processed,
                   pg_pending, pg_failed, pg_ri_usage, outputQueue>>

\* missing_cols is not empty: raise ValueError, re-raised at line 246
BlobMissingColumns ==
    /\ blob_pc = "header"
    /\ RequiredColumns \ header_map # {}
    /\ blob_pc' = "raised ValueError"
    /\ UNCHANGED <<analysisVars, ri_usage, importVars, pipeVars, conn_string,
                   header_map, csv_reader, row_num, rows_processed,
                   pg_pending, pg_failed, pg_ri_usage, outputQueue>>

\* missing_cols is empty: the loop over the rows begins
BlobHeaderOk ==
    /\ blob_pc = "header"
    /\ RequiredColumns \ header_map = {}
    /\ blob_pc' = "rows"
    /\ UNCHANGED <<analysisVars, ri_usage, importVars, pipeVars, conn_string,
                   header_map, csv_reader, row_num, rows_processed,
                   pg_pending, pg_failed, pg_ri_usage, outputQueue>>

\* if len(row) < len(header): continue
BlobSkipShortRow ==
    /\ blob_pc = "rows"
    /\ row_num <= Len(csv_reader)
    /\ ~csv_reader[row_num].enough_cells
    /\ row_num' = row_num + 1
    /\ UNCHANGED <<analysisVars, ri_usage, importVars, pipeVars, conn_string,
                   header_map, csv_reader, blob_pc, rows_processed,
                   pg_pending, pg_failed, pg_ri_usage, outputQueue>>

\* except ValueError: continue
BlobRowValueError ==
    /\ blob_pc = "rows"
    /\ row_num <= Len(csv_reader)
    /\ csv_reader[row_num].enough_cells
    /\ RowValueError(csv_reader[row_num])
    /\ row_num' = row_num + 1
    /\ UNCHANGED <<analysisVars, ri_usage, importVars, pipeVars, conn_string,
                   header_map, csv_reader, blob_pc, rows_processed,
                   pg_pending, pg_failed, pg_ri_usage, outputQueue>>

\* cur.execute(insert_query, ...) returns: ON CONFLICT DO NOTHING leaves a
\* row with a stored key out, and rows_processed counts the others
BlobRowInsert ==
    /\ blob_pc = "rows"
    /\ row_num <= Len(csv_reader)
    /\ csv_reader[row_num].enough_cells
    /\ ~RowValueError(csv_reader[row_num])
    /\ ~pg_failed
    /\ LET new == PgRow(csv_reader[row_num])
           stored == {PgKey(r) : r \in pg_ri_usage \cup pg_pending}
       IN  IF PgKey(new) \in stored
           THEN UNCHANGED <<pg_pending, rows_processed>>
           ELSE /\ pg_pending' = pg_pending \cup {new}
                /\ rows_processed' = rows_processed + 1
    /\ row_num' = row_num + 1
    /\ UNCHANGED <<analysisVars, ri_usage, importVars, pipeVars, conn_string,
                   header_map, csv_reader, blob_pc, pg_failed, pg_ri_usage,
                   outputQueue>>

\* cur.execute raises (the server refuses the statement, or the transaction
\* has already failed): except Exception: continue. The transaction has
\* failed from then on.
BlobRowDbError ==
    /\ blob_pc = "rows"
    /\ row_num <= Len(csv_reader)
    /\ csv_reader[row_num].enough_cells
    /\ ~RowValueError(csv_reader[row_num])
    /\ pg_failed' = TRUE
    /\ row_num' = row_num + 1
    /\ UNCHANGED <<analysisVars, ri_usage, importVars, pipeVars, conn_string,
                   header_map, csv_reader, blob_pc, rows_processed,
                   pg_pending, pg_ri_usage, outputQueue>>

\* conn.commit() returns: the rows of the transaction are stored, unless it
\* had failed, when the server rolls it back
BlobCommit ==
    /\ blob_pc = "rows"
    /\ row_num > Len(csv_reader)
    /\ pg_ri_usage' =
          IF pg_failed THEN pg_ri_usage ELSE pg_ri_usage \cup pg_pending
    /\ pg_pending' = {}
    /\ blob_pc' = "emit"
    /\ UNCHANGED <<analysisVars, ri_usage, importVars, pipeVars, conn_string,
                   header_map, csv_reader, row_num, rows_processed,
                   pg_failed, outputQueue>>

\* (mutant: the message is set although the commit raised)
BlobCommitRaisesEmits ==
    /\ blob_pc = "rows"
    /\ row_num > Len(csv_reader)
    /\ pg_pending' = {}
    /\ outputQueue' = Append(outputQueue, [blob_name |-> BlobName,
                                            status |-> "data_imported"])
    /\ blob_pc' = "raised psycopg2.Error"
    /\ UNCHANGED <<analysisVars, ri_usage, importVars, pipeVars, conn_string,
                   header_map, csv_reader, row_num, rows_processed,
                   pg_failed, pg_ri_usage>>

\* conn.commit() raises psycopg2.Error, re-raised at line 243; closing the
\* connection drops the transaction
BlobCommitRaises ==
    /\ blob_pc = "rows"
    /\ row_num > Len(csv_reader)
    /\ pg_pending' = {}
    /\ blob_pc' = "raised psycopg2.Error"
    /\ UNCHANGED <<analysisVars, ri_usage, importVars, pipeVars, conn_string,
                   header_map, csv_reader, row_num, rows_processed,
                   pg_failed, pg_ri_usage, outputQueue>>

\* outputQueue.set(message)
BlobEmit ==
    /\ blob_pc = "emit"
    /\ outputQueue' = Append(outputQueue, [blob_name |-> BlobName,
                                            status |-> "data_imported"])
    /\ blob_pc' = "done"
    /\ UNCHANGED <<analysisVars, ri_usage, importVars, pipeVars, conn_string,
                   header_map, csv_reader, row_num, rows_processed,
                   pg_pending, pg_failed, pg_ri_usage>>

NextBlob ==
    \/ BlobNoConnString
    \/ BlobConnect
    \/ BlobConnectRaises
    \/ BlobMissingColumns
    \/ BlobHeaderOk
    \/ BlobSkipShortRow
    \/ BlobRowValueError
    \/ BlobRowInsert
    \/ BlobRowDbError
    \/ BlobCommit
    \/ BlobCommitRaises
    \/ BlobEmit

NextImport ==
    \/ ImportInsert
    \/ ImportSkipExisting
    \/ ImportSkipKeyError
    \/ ImportCommit
    \/ ImportNextFile

Spec == Init /\ [][Next]_vars
SpecImport == InitImport /\ [][NextImport]_vars
SpecMalformed == InitMalformed /\ [][NextRaising]_vars
SpecTwice == InitTwice /\ [][NextCalls]_vars
SpecAttributes == InitAttributes /\ [][NextOnce]_vars
SpecOtherExpiry == InitOtherExpiry /\ [][NextOtherExpiry]_vars
SpecPermuted == InitPermuted /\ [][NextCalls]_vars
SpecDuplicates == InitDuplicates /\ [][NextCalls]_vars
SpecExpiry == InitExpiry /\ [][Next]_vars
SpecAlert == InitAlert /\ [][Next]_vars
SpecTexts == InitTexts /\ [][NextOnce]_vars
SpecWalks == InitWalks /\ [][NextOnce]_vars /\ WF_vars(NextOnce)
SpecPipeline == InitPipeline /\ [][NextPipeline]_vars
SpecBlob == InitBlob /\ [][NextBlob]_vars /\ WF_vars(NextBlob)

\* ------------------------------------------------------------- properties

\* The result of the identity analysed last has been appended, and the
\* loop's locals still hold that identity's values.
Emitted == pc \in {"next_ri", "done"} /\ aggregated_results # <<>>

LastResult == aggregated_results[Len(aggregated_results)]

Window == analysis_period_start_date..analysis_period_end_date

\* The window dates with a row, and those among them below the threshold
\* and at zero.
DatesWithData == Window \cap DOMAIN daily_data
UnderutilizedDates ==
    {d \in DatesWithData : daily_data[d].utilization_percent < ThresholdPct}
UnusedDates == {d \in DatesWithData : daily_data[d].utilization_percent = 0}

\* Length of the longest run of consecutive window dates that all lie in S.
LongestRun(S) ==
    LET runs == {<<a, b>> \in Window \X Window : a <= b /\ (a..b) \subseteq S}
    IN  IF runs = {} THEN 0
        ELSE SetMax({r[2] - r[1] + 1 : r \in runs})

\* C1: the status of a result is the outcome of the first matching rule in
\* the order No Data, Partial Data, unused, underutilized, healthy.
C1_StatusPrecedence ==
    Emitted =>
        LET r == LastResult
            missing == Cardinality(Window \ DOMAIN daily_data)
        IN  /\ r.missing_days = missing
            /\ r.status =
                 IF missing = total_analysis_days THEN "No Data"
                 ELSE IF missing > 0 /\ ~is_data_continuous_from_start
                      THEN "Partial Data"
                 ELSE IF total_utilization_sum = 0 THEN "unused"
                 ELSE IF total_utilization_sum
                          < ThresholdPct * valid_utilization_days_count
                      THEN "underutilized"
                 ELSE "healthy"

\* C1 witness: an all-zero RI with an internal gap; rule 2 wins over rule 3.
C1_Witness ==
    /\ Emitted
    /\ LastResult.status = "Partial Data"
    /\ total_utilization_sum = 0
    /\ ThresholdPct > 0

\* C2 (as claimed): both maxima are the longest runs of consecutive window
\* dates with a row below the threshold, respectively with a row at zero.
C2_LongestRuns ==
    Emitted =>
        /\ LastResult.max_consecutive_underutilized_days
              = LongestRun(UnderutilizedDates)
        /\ LastResult.max_consecutive_unused_days = LongestRun(UnusedDates)

\* C3: the step of the walk for a date without a row leaves both running
\* counters at 0.
C3_GapReset ==
    [][(pc = "walk" /\ current_date <= analysis_period_end_date
          /\ current_date \notin DOMAIN daily_data)
       => (current_underutilized_days_consecutive' = 0
           /\ current_unused_days_consecutive' = 0)]_vars

\* C3 witness: the walk stands right after a gap that followed an unused
\* day (both counters were 1 or more before the gap).
C3_Witness ==
    /\ pc = "walk"
    /\ current_date - 2 >= analysis_period_start_date
    /\ (current_date - 1) \notin DOMAIN daily_data
    /\ (current_date - 2) \in DOMAIN daily_data
    /\ daily_data[current_date - 2].utilization_percent = 0
    /\ ThresholdPct > 0
    /\ current_underutilized_days_consecutive = 0
    /\ current_unused_days_consecutive = 0

\* C4: with at least one row in the window, the status is "Partial Data"
\* exactly when a date strictly between the first and the last date with a
\* row has none.
C4_PartialIffInternalGap ==
    (Emitted /\ DatesWithData # {}) =>
        LET first == SetMin(DatesWithData)
            last == SetMax(DatesWithData)
        IN  (LastResult.status = "Partial Data")
               <=> (\E d \in Window :
                       first < d /\ d < last /\ d \notin DOMAIN daily_data)

\* C4 witness: rows on the first two days of a five-day window only.
C4_Witness ==
    /\ Emitted
    /\ total_analysis_days = 5
    /\ DOMAIN daily_data
          = {analysis_period_start_date, analysis_period_start_date + 1}
    /\ LastResult.missing_days = 3
    /\ LastResult.status \in {"unused", "underutilized", "healthy"}

\* The expiry date of the last result was computed (end_date is not "N/A").
ExpiryComputed == Emitted /\ LastResult.end_date # "N/A"

\* C5: with an expiry date, days_remaining is expiry minus window end;
\* expiry_status is "expired" iff days_remaining <= 0, "expiring_soon" iff
\* 0 < days_remaining <= expiry_warn_days, and "active" otherwise.
C5_ExpiryStatus ==
    ExpiryComputed =>
        LET r == LastResult
            dr == ToOrdinal(expiry_date_ri_obj) - analysis_period_end_date
        IN  /\ r.days_remaining = dr
            /\ (r.expiry_status = "expired") <=> (dr <= 0)
            /\ (r.expiry_status = "expiring_soon")
                  <=> (0 < dr /\ dr <= expiry_warn_days)
            /\ (r.expiry_status = "active")
                  <=> ~(dr <= 0) /\ ~(0 < dr /\ dr <= expiry_warn_days)

\* C5 witness: an RI that expires on the last day of the window.
C5_Witness ==
    /\ ExpiryComputed
    /\ LastResult.days_remaining = 0
    /\ LastResult.expiry_status = "expired"
    /\ expiry_warn_days > 0

\* C6 (as claimed): for any expiry_warn_days, days_remaining equal to it is
\* "expiring_soon" and one more is "active".
C6_BoundaryAnyWarn ==
    ExpiryComputed =>
        LET r == LastResult
        IN  /\ (r.days_remaining = expiry_warn_days)
                  => (r.expiry_status = "expiring_soon")
            /\ (r.days_remaining = expiry_warn_days + 1)
                  => (r.expiry_status = "active")

\* C6 (amended): for expiry_warn_days >= 1, days_remaining equal to it is
\* "expiring_soon"; for expiry_warn_days >= 0, one more is "active".
C6_Boundary ==
    ExpiryComputed =>
        LET r == LastResult
        IN  /\ (expiry_warn_days >= 1 /\ r.days_remaining = expiry_warn_days)
                  => (r.expiry_status = "expiring_soon")
            /\ (expiry_warn_days >= 0
                  /\ r.days_remaining = expiry_warn_days + 1)
                  => (r.expiry_status = "active")

\* C6 witness: an RI exactly expiry_warn_days (30) before its expiry.
C6_Witness ==
    /\ ExpiryComputed
    /\ expiry_warn_days = 30
    /\ LastResult.days_remaining = expiry_warn_days
    /\ LastResult.expiry_status = "expiring_soon"

\* C7: the expiry day is the purchase day clamped to the last day of the
\* expiry month, a valid date of the month term_months after the purchase
\* month; 2024-01-31 plus 1 month is 2024-02-29, which at window end
\* 2024-03-01 is 1 day overdue and "expired".
C7_DayClamped ==
    ExpiryComputed =>
        LET r == LastResult
            p == data_payload.purchase_date
            t == data_payload.term_months
            e == expiry_date_ri_obj
        IN  /\ e.day = Min(p.day, DaysInMonth(e.year, e.month))
            /\ e.month \in 1..12 /\ e.day >= 1
            /\ e.day <= DaysInMonth(e.year, e.month)
            /\ 12 * e.year + e.month = 12 * p.year + p.month + t
            /\ (p = MkDate(2024, 1, 31) /\ t = 1
                  /\ analysis_period_end_date = ToOrdinal(MkDate(2024, 3, 1)))
                  => /\ r.end_date = "2024-02-29"
                     /\ r.days_remaining = -1
                     /\ r.expiry_status = "expired"

\* C7 witness: purchase 2024-01-31, one month, window end 2024-03-01.
C7_Witness ==
    /\ ExpiryComputed
    /\ data_payload.purchase_date = MkDate(2024, 1, 31)
    /\ data_payload.term_months = 1
    /\ analysis_period_end_date = ToOrdinal(MkDate(2024, 3, 1))
    /\ LastResult.end_date = "2024-02-29"

\* C8: expiry year and month are purchase year + term div 12 and purchase
\* month + term mod 12, with one year carried and 12 subtracted when the
\* month exceeds 12; the month is in 1..12.
C8_YearMonth ==
    ExpiryComputed =>
        LET p == data_payload.purchase_date
            t == data_payload.term_months
            e == expiry_date_ri_obj
            y0 == p.year + (t \div 12)
            m0 == p.month + (t % 12)
        IN  /\ t >= 0
            /\ e.year = (IF m0 > 12 THEN y0 + 1 ELSE y0)
            /\ e.month = (IF m0 > 12 THEN m0 - 12 ELSE m0)
            /\ e.month \in 1..12

\* C8 witness: a December purchase with a 13 month term (the month carries).
C8_Witness ==
    /\ ExpiryComputed
    /\ data_payload.purchase_date.month = 12
    /\ data_payload.term_months = 13
    /\ expiry_date_ri_obj.month = 1
    /\ expiry_date_ri_obj.year = data_payload.purchase_date.year + 2

\* Position of a clause in the fixed order Unused, Underutilized, Expires
\* (0: not a clause of this result).
ClauseRank(c, r) ==
    IF c = UnusedClause(r.max_consecutive_unused_days) THEN 1
    ELSE IF c = UnderutilizedClause(r.max_consecutive_underutilized_days) THEN 2
    ELSE IF c = ExpiresClause(r.days_remaining) THEN 3
    ELSE 0

HasClause(c) == \E i \in DOMAIN alerts : alerts[i] = c

\* C9: the alert is its clauses in the order Unused, Underutilized, Expires
\* joined by "; "; the Unused (Underutilized) clause is there iff the
\* maximum reaches min_unused (min_underutilized) days; the alert is empty
\* iff no clause fires.
C9_AlertClauses ==
    Emitted =>
        LET r == LastResult
            n == Len(alerts)
        IN  /\ HasClause(UnusedClause(r.max_consecutive_unused_days))
                  <=> (r.max_consecutive_unused_days
                          >= min_unused_days_for_alert)
            /\ HasClause(UnderutilizedClause(r.max_consecutive_underutilized_days))
                  <=> (r.max_consecutive_underutilized_days
                          >= min_underutilized_days_for_alert)
            /\ \A i \in 1..n : ClauseRank(alerts[i], r) > 0
            /\ \A i, j \in 1..n :
                  i < j => ClauseRank(alerts[i], r) < ClauseRank(alerts[j], r)
            /\ r.alert = (IF n = 0 THEN ""
                          ELSE IF n = 1 THEN alerts[1]
                          ELSE IF n = 2 THEN alerts[1] \o "; " \o alerts[2]
                          ELSE alerts[1] \o "; " \o alerts[2] \o "; "
                                 \o alerts[3])
            /\ (r.alert = "") <=> (n = 0)

\* C9 witness: all three clauses fire.
C9_Witness ==
    /\ Emitted
    /\ Len(alerts) = 3
    /\ LastResult.max_consecutive_unused_days = 2
    /\ LastResult.max_consecutive_underutilized_days = 3

\* C10 (as claimed): the alert has the clause "Expires in N day(s)" iff the
\* result's expiry_status is "expiring_soon" and days_remaining >= 0.
C10_ExpiresClauseIffExpiringSoon ==
    Emitted =>
        LET r == LastResult
        IN  HasClause(ExpiresClause(r.days_remaining))
               <=> (r.expiry_status = "expiring_soon" /\ r.days_remaining >= 0)

\* ------------------------------------------------- claims on the row lists

\* The records of a result list, without their order.
ResultSet(results) == {results[i] : i \in 1..Len(results)}

\* The second call has ended; earlier_outputs[1] is what the first gave.
BothEnded == pc \in {"done", "raised"} /\ Len(earlier_outputs) = 1

FirstRows == earlier_outputs[1].rows
FirstHas(rows) == \E i \in 1..Len(FirstRows) : FirstRows[i] \in rows

\* C11: a row whose report date or purchase date does not parse, or whose
\* utilization is no number, never aborts the call: the call returns, and
\* returns what it returns for the same rows without the malformed one.
C11_MalformedDropped ==
    BothEnded /\ FirstHas(MalformedRows) =>
        /\ ~earlier_outputs[1].raised
        /\ pc = "done"
        /\ ResultSet(earlier_outputs[1].results) = ResultSet(aggregated_results)

\* The results a result list holds for an identity.
ResultsOf(results, id) ==
    {r \in ResultSet(results) : <<r.subscription_id, r.ri_id>> = id}

\* The rows of the first call that lack a purchase date or a term.
FirstMissing == {i \in 1..Len(FirstRows) : FirstRows[i] \in MissingRows}

\* C12: when the purchase date or the term of an RI is missing, the call
\* still returns; the RI (all of whose rows lack the field) has a result
\* with no expiry date, days_remaining -1 and expiry_status "active"; every
\* other RI has the result it has without that row.
C12_MissingRecovered ==
    BothEnded /\ FirstMissing # {} =>
        /\ ~earlier_outputs[1].raised
        /\ pc = "done"
        /\ \A i \in FirstMissing :
              LET id == IdOf(FirstRows[i])
                  other == CHOOSE x \in Idents : x # id
              IN  /\ (\A j \in 1..Len(FirstRows) :
                         IdOf(FirstRows[j]) = id => j = i) =>
                        /\ ResultsOf(earlier_outputs[1].results, id) # {}
                        /\ \A r \in ResultsOf(earlier_outputs[1].results, id) :
                              /\ r.end_date = FormatDate(NoDate)
                              /\ r.days_remaining = -1
                              /\ r.expiry_status = "active"
                  /\ ResultsOf(earlier_outputs[1].results, other)
                        = ResultsOf(aggregated_results, other)

\* The identities that have a row in a row list.
IdentsIn(rows) == {IdOf(rows[i]) : i \in 1..Len(rows)}

\* C13: a call that has ended has returned, with exactly one result for
\* every identity that has a row in the input and none for any other; for
\* an empty input it has returned the empty list.
C13_OnePerIdentity ==
    pc \in {"done", "raised"} =>
        /\ pc = "done"
        /\ Len(aggregated_results) = Cardinality(IdentsIn(raw_data))
        /\ \A id \in Idents :
              Cardinality(ResultsOf(aggregated_results, id))
                  = IF id \in IdentsIn(raw_data) THEN 1 ELSE 0

\* C14: the second of two calls on the same rows, window and settings
\* returns the same list as the first.
C14_SameOutputTwice ==
    BothEnded /\ FirstRows = raw_data =>
        /\ earlier_outputs[1].raised = (pc = "raised")
        /\ earlier_outputs[1].results = aggregated_results

\* Two calls on the same rows have ended, the first left totals above zero
\* behind and both analysed two identities.
C14_Witness ==
    /\ BothEnded
    /\ FirstRows = raw_data
    /\ Len(aggregated_results) = 2
    /\ \E i \in 1..2 : aggregated_results[i].total_unused_days_period > 0

\* The rows of an identity in a row list, in the list's order.
RowsFor(rows, id) == SelectSeq(rows, LAMBDA r : IdOf(r) = id)

\* C15: an identity whose own rows are the same in two calls with the same
\* window and settings has the same result in both, whatever the rows of the
\* other identities are.
C15_OthersIrrelevant ==
    BothEnded =>
        \A id \in Idents :
            RowsFor(FirstRows, id) = RowsFor(raw_data, id) =>
                ResultsOf(earlier_outputs[1].results, id)
                    = ResultsOf(aggregated_results, id)

\* C16: when no two rows share identity and day, the rows in any other
\* order give the same set of results.
C16_OrderIrrelevant ==
    BothEnded =>
        /\ pc = "done"
        /\ ~earlier_outputs[1].raised
        /\ ResultSet(earlier_outputs[1].results) = ResultSet(aggregated_results)

\* Both calls have ended, the second on the first's rows in another order
\* that also changes the order of the identities, each identity with a row
\* on both days.
C16_Witness ==
    /\ BothEnded
    /\ FirstRows # raw_data
    /\ Len(raw_data) = MaxRows
    /\ IdOf(raw_data[1]) = Ident2
    /\ IdOf(FirstRows[1]) = Ident
    /\ \E r \in ResultSet(aggregated_results) : r.missing_days = 0

\* C17: rows for the same identity and day overwrite one another, the last
\* one staying: the call returns, its results are those of the call on the
\* rows without every row that has a later row for its identity and day,
\* and a day with several rows is counted once.
C17_LastWriteWins ==
    BothEnded =>
        /\ pc = "done"
        /\ ~earlier_outputs[1].raised
        /\ ResultSet(earlier_outputs[1].results) = ResultSet(aggregated_results)
        /\ \A r \in ResultSet(earlier_outputs[1].results) :
              r.missing_days + Cardinality(
                  {FirstRows[i].report_date : i \in
                      {k \in 1..Len(FirstRows) :
                          IdOf(FirstRows[k]) = <<r.subscription_id, r.ri_id>>}})
                  = total_analysis_days

\* Both calls have ended; the first had an unused and a well used row for
\* the same identity and day, the well used one last, and the result counts
\* no unused day.
C17_Witness ==
    /\ BothEnded
    /\ \E i, j \in 1..Len(FirstRows) :
          /\ i < j
          /\ KeyOf(FirstRows[i]) = KeyOf(FirstRows[j])
          /\ FirstRows[i].usage_quantity = 0
          /\ FirstRows[j].usage_quantity = 90
          /\ \A k \in 1..Len(FirstRows) : k \notin {i, j} =>
                KeyOf(FirstRows[k]) # KeyOf(FirstRows[i])
          /\ \A r \in ResultsOf(aggregated_results, IdOf(FirstRows[i])) :
                r.total_unused_days_period = 0

\* ---------------------------------------------- claims on the period totals

\* C18: total_underutilized_days_period is the number of window dates with
\* a row whose utilization is below the threshold, total_unused_days_period
\* the number of window dates with a row of utilization 0, for every
\* threshold.
C18_Totals ==
    Emitted =>
        /\ LastResult.total_underutilized_days_period
              = Cardinality(UnderutilizedDates)
        /\ LastResult.total_unused_days_period = Cardinality(UnusedDates)

\* The sum of the utilizations of the rows on the dates of S.
RECURSIVE SumOver(_)
SumOver(S) ==
    IF S = {} THEN 0
    ELSE LET d == CHOOSE x \in S : TRUE
         IN  daily_data[d].utilization_percent + SumOver(S \ {d})

\* C19: overall_utilization_percent is the sum of the utilizations of the
\* days with data divided by the number of those days, missing days in
\* neither; it is 0 when no day has data; the result carries it rounded to
\* hundredths, and the days 90, 0, 90 give 60.
C19_OverallIsMean ==
    /\ OverallIsZero(Overall(0, 0))
    /\ Emitted =>
          /\ overall_utilization_percent.num * Cardinality(DatesWithData)
                = SumOver(DatesWithData) * overall_utilization_percent.den
          /\ LastResult.utilization_percent_period
                = RoundHundredths([num |-> SumOver(DatesWithData),
                                   den |-> Cardinality(DatesWithData)])
          /\ (/\ Cardinality(DatesWithData) = 3
              /\ Cardinality(UnusedDates) = 1
              /\ \A d \in DatesWithData \ UnusedDates :
                    daily_data[d].utilization_percent = 90) =>
                LastResult.utilization_percent_period = 60 * 100

\* A result for a window with missing days whose three days with data have
\* the utilizations 90, 0 and 90, in this order: the mean is 60.
C19_Witness ==
    /\ Emitted
    /\ LastResult.missing_days > 0
    /\ \E a, b, c \in DatesWithData :
          /\ a < b /\ b < c
          /\ DatesWithData = {a, b, c}
          /\ daily_data[a].utilization_percent = 90
          /\ daily_data[b].utilization_percent = 0
          /\ daily_data[c].utilization_percent = 90
    /\ LastResult.utilization_percent_period = 6000

\* C20: missing_days is the number of dates of the window without a row;
\* with the number of days with data it adds up to the days of the window,
\* end - start + 1, and lies between 0 and that number.
C20_MissingDays ==
    Emitted =>
        /\ LastResult.missing_days = Cardinality(Window \ DOMAIN daily_data)
        /\ LastResult.missing_days + Cardinality(DatesWithData)
              = total_analysis_days
        /\ total_analysis_days
              = LastResult.analysis_period_end
                  - LastResult.analysis_period_start + 1
        /\ 0 <= LastResult.missing_days
        /\ LastResult.missing_days <= total_analysis_days

\* A result for a window of MaxDays days with rows on the first and the third
\* day only: the other days, the last ones among them, are missing.
C20_Witness ==
    /\ Emitted
    /\ total_analysis_days = MaxDays
    /\ DatesWithData = {analysis_period_start_date,
                        analysis_period_start_date + 2}
    /\ LastResult.missing_days = MaxDays - 2

\* --------------------------------------------------- claims on whole windows

\* C21: when every date of the window has a row with utilization 0 and the
\* threshold is above 0, the status is "unused", the longest unused run is
\* the whole window, and the alert has the clause "Unused for N consecutive
\* day(s)", N the days of the window, whenever min_unused_days_for_alert is
\* at most N.
C21_AllUnused ==
    (Emitted /\ ThresholdPct > 0 /\ UnusedDates = Window) =>
        /\ LastResult.status = "unused"
        /\ LastResult.max_consecutive_unused_days = total_analysis_days
        /\ min_unused_days_for_alert <= total_analysis_days =>
              /\ HasClause(UnusedClause(total_analysis_days))
              /\ alerts[1] = UnusedClause(total_analysis_days)
              /\ LastResult.alert = JoinAlerts(alerts)

\* A window of three days, all unused, at threshold 0.8: the alert starts
\* with "Unused for 3 consecutive day(s)".
C21_Witness ==
    /\ Emitted
    /\ ThresholdPct = 80
    /\ total_analysis_days = 3
    /\ UnusedDates = Window
    /\ min_unused_days_for_alert <= 3
    /\ alerts[1] = "Unused for 3 consecutive day(s)"

\* ------------------------------------------ claims on the resolved attributes

\* The fetched rows of the identity analysed last.
RowsOfCur == {raw_data[i] : i \in {k \in 1..Len(raw_data) : IdOf(raw_data[k]) = cur}}

\* Those of them whose report date is a day of the window.
WindowRowsOfCur ==
    {r \in RowsOfCur : /\ CanParse(r.report_date)
                       /\ ParseReportDate(r.report_date) \in Window}

\* The row of that identity with the latest report date in the window.
LastRowOfCur ==
    CHOOSE r \in WindowRowsOfCur :
        \A q \in WindowRowsOfCur :
            ParseReportDate(q.report_date) <= ParseReportDate(r.report_date)

\* C22: the sku, region, term, purchase date and recipient of a result are
\* those of the identity's row with the latest report date, in whatever
\* order the rows came and whatever the earlier days carried; the expiry
\* date is computed from that row's purchase date and term.
C22_AttributesOfLastDay ==
    (Emitted /\ WindowRowsOfCur # {}) =>
        LET r == LastRowOfCur
        IN  /\ LastResult.sku_name = r.sku_name
            /\ LastResult.region = r.region
            /\ LastResult.term_months = r.term_months
            /\ LastResult.purchase_date = FormatDate(r.purchase_date)
            /\ LastResult.email_recipient = r.email_recipient
            /\ LastResult.end_date
                  = FormatDate(ExpiryOf(r.purchase_date, r.term_months))

\* The row of the latest day came first in the list, an earlier day with
\* another purchase date, term, sku, region and recipient came after it, and
\* the result expires on 2024-03-10, three years after the latest row's
\* purchase date.
C22_Witness ==
    /\ Emitted
    /\ Len(raw_data) >= 2
    /\ raw_data[1].report_date = RowsEnd
    /\ raw_data[1].purchase_date = MkDate(2021, 3, 10)
    /\ raw_data[2].purchase_date = MkDate(2023, 6, 15)
    /\ raw_data[2].sku_name = "Standard_D2s_v3"
    /\ LastResult.end_date = "2024-03-10"
    /\ LastResult.sku_name = "Standard_E4s_v5"

\* C23: the sku (region) of a result is the configured default exactly when
\* no row of the identity in the window supplies one, and is a supplied
\* value when some row supplies one.
C23_DefaultsOnlyWhenUnsupplied ==
    (Emitted /\ RowsOfCur # {}) =>
        LET skus == {r.sku_name : r \in RowsOfCur} \ {NoneText}
            regions == {r.region : r \in RowsOfCur} \ {NoneText}
        IN  /\ (LastResult.sku_name = default_sku) <=> (skus = {})
            /\ (LastResult.region = default_region) <=> (regions = {})
            /\ skus # {} => LastResult.sku_name \in skus
            /\ regions # {} => LastResult.region \in regions

\* -------------------------------------------------------- claims on status

\* The status values a result list holds for an identity.
StatusesOf(results, id) == {r.status : r \in ResultsOf(results, id)}

\* C24: no result has the status "expired", and of two calls that differ
\* only in the purchase date and term of an identity and in
\* expiry_warn_days, both give every identity the same status.
C24_StatusIgnoresExpiry ==
    /\ \A r \in ResultSet(aggregated_results) : r.status # "expired"
    /\ BothEnded =>
          \A id \in Idents :
              StatusesOf(earlier_outputs[1].results, id)
                  = StatusesOf(aggregated_results, id)

\* Both calls have ended; the first identity was "active" in the first and
\* is "expired" in the second, with the status "unused" in both.
C24_Witness ==
    /\ BothEnded
    /\ \E r \in ResultsOf(earlier_outputs[1].results, Ident) :
          r.expiry_status = "active" /\ r.status = "unused"
    /\ \E r \in ResultsOf(aggregated_results, Ident) :
          r.expiry_status = "expired" /\ r.status = "unused"

StatusValues == {"No Data", "Partial Data", "unused", "underutilized", "healthy"}

\* C25: every result carries one status, and it is one of "No Data",
\* "Partial Data", "unused", "underutilized" and "healthy".
C25_StatusInSet ==
    /\ \A r \in ResultSet(aggregated_results) : r.status \in StatusValues
    /\ Emitted => LastResult.status = status

\* A result that took the branch no condition sets: "healthy", with days
\* missing before the first row.
C25_Witness ==
    /\ Emitted
    /\ LastResult.status = "healthy"
    /\ LastResult.missing_days > 0
    /\ analysis_period_start_date \notin DOMAIN daily_data

\* -------------------------------------------------------- claims on the import

\* The second import of the file has been committed; import_log[1] is what
\* the first left.
ImportedTwice == import_pc = "committed" /\ Len(import_log) = 1

\* The file both imports read (the log keeps the table, the file is the
\* same for both).
StoredRows(table) == {table[i] : i \in 1..Len(table)}

\* C26: an entry whose (subscription_id, resource_id, report_date) a stored
\* row already has is skipped and the stored row stays as it is: no two
\* rows of the table have the same three values; the second import of a
\* file inserts nothing and leaves the table as the first import left it.
C26_ImportIdempotent ==
    /\ \A i, j \in 1..Len(ri_usage) :
          KeyOf(ri_usage[i]) = KeyOf(ri_usage[j]) => i = j
    /\ ImportedTwice =>
          /\ inserted = 0
          /\ ri_usage = import_log[1].table

\* ------------------------------------------------ claims on the walk's steps

\* C27: the step for a date with a row of utilization u: below the
\* threshold the underutilized counter goes up by one, and the unused
\* counter goes up by one if u is 0 and back to 0 if not; at or above the
\* threshold both counters go back to 0; then each maximum is the larger of
\* its old value and its counter.
C27_PresentStep ==
    [][(pc = "walk" /\ current_date <= analysis_period_end_date
          /\ current_date \in DOMAIN daily_data)
       => LET u == daily_data[current_date].utilization_percent
          IN  /\ u < ThresholdPct =>
                    /\ current_underutilized_days_consecutive'
                          = current_underutilized_days_consecutive + 1
                    /\ u = 0 => current_unused_days_consecutive'
                                    = current_unused_days_consecutive + 1
                    /\ u # 0 => current_unused_days_consecutive' = 0
              /\ u >= ThresholdPct =>
                    /\ current_underutilized_days_consecutive' = 0
                    /\ current_unused_days_consecutive' = 0
              /\ max_underutilized_sequence'
                    = Max(max_underutilized_sequence,
                          current_underutilized_days_consecutive')
              /\ max_unused_sequence'
                    = Max(max_unused_sequence,
                          current_unused_days_consecutive')]_vars

\* The walk stands right after a day whose utilization is exactly the
\* threshold (50 at 0.5) and that followed an unused day: the counters are
\* back at 0, the maxima keep the 1.
C27_Witness ==
    /\ pc = "walk"
    /\ ThresholdPct = 50
    /\ current_date - 2 >= analysis_period_start_date
    /\ (current_date - 1) \in DOMAIN daily_data
    /\ (current_date - 2) \in DOMAIN daily_data
    /\ daily_data[current_date - 1].utilization_percent = 50
    /\ daily_data[current_date - 2].utilization_percent = 0
    /\ current_underutilized_days_consecutive = 0
    /\ current_unused_days_consecutive = 0
    /\ max_underutilized_sequence >= 1
    /\ max_unused_sequence >= 1

\* C28: the step for a date without a row changes the sum, the number of
\* days with data, the two totals, the two maxima and the resolved
\* attributes in nothing.
C28_MissingStepFrame ==
    [][(pc = "walk" /\ current_date <= analysis_period_end_date
          /\ current_date \notin DOMAIN daily_data)
       => UNCHANGED <<total_utilization_sum, valid_utilization_days_count,
                      total_underutilized_days_period_actual,
                      total_unused_days_period_actual,
                      max_underutilized_sequence, max_unused_sequence,
                      data_payload>>]_vars

\* The walk stands right after a missing date that followed two days with
\* data, one of them underutilized: the sum, the count, the totals and the
\* maxima are those of the two days.
C28_Witness ==
    /\ pc = "walk"
    /\ ThresholdPct = 80
    /\ current_date - 3 = analysis_period_start_date
    /\ (current_date - 1) \notin DOMAIN daily_data
    /\ (current_date - 2) \in DOMAIN daily_data
    /\ (current_date - 3) \in DOMAIN daily_data
    /\ daily_data[current_date - 2].utilization_percent = 50
    /\ daily_data[current_date - 3].utilization_percent = 90
    /\ total_utilization_sum = 140
    /\ valid_utilization_days_count = 2
    /\ total_underutilized_days_period_actual = 1
    /\ total_unused_days_period_actual = 0
    /\ max_underutilized_sequence = 1
    /\ data_payload.email_recipient = "ops@example.com"

\* ---------------------------------------------------- claims on continuity

\* C29: is_data_continuous_from_start is true exactly when the number of
\* days with data is last - first + 1, that is when every date from the
\* first to the last date with a row has one; without any row it is false.
C29_ContinuousIffSpanFull ==
    /\ ~IsContinuous(NoOrdinal, NoOrdinal, 0)
    /\ (Emitted /\ DatesWithData # {}) =>
          LET first == SetMin(DatesWithData)
              last == SetMax(DatesWithData)
          IN  /\ is_data_continuous_from_start
                    <=> (Cardinality(DatesWithData) = last - first + 1)
              /\ is_data_continuous_from_start
                    <=> (\A d \in first..last : d \in DOMAIN daily_data)

\* A window of MaxDays days with rows on the second and third day only: the
\* flag is true with days missing on both sides.
C29_Witness ==
    /\ Emitted
    /\ total_analysis_days = MaxDays
    /\ DatesWithData = {analysis_period_start_date + 1,
                        analysis_period_start_date + 2}
    /\ is_data_continuous_from_start

C31_ZeroTermHasNoExpiry ==
    (Emitted /\ LastResult.term_months = 0) =>
        /\ LastResult.end_date = "N/A"
        /\ LastResult.days_remaining = -1
        /\ LastResult.expiry_status = "active"

\* ------------------------------------------- claims on the walk's counters

\* C32: between the dates of a walk, 0 <= unused counter <= underutilized
\* counter <= underutilized maximum and unused counter <= unused maximum <=
\* underutilized maximum; no step of the walk lowers either maximum.
C32_WalkCounters ==
    /\ [](pc = "walk" =>
            /\ 0 <= current_unused_days_consecutive
            /\ current_unused_days_consecutive
                  <= current_underutilized_days_consecutive
            /\ current_underutilized_days_consecutive
                  <= max_underutilized_sequence
            /\ current_unused_days_consecutive <= max_unused_sequence
            /\ max_unused_sequence <= max_underutilized_sequence)
    /\ [][pc = "walk" =>
            /\ max_underutilized_sequence' >= max_underutilized_sequence
            /\ max_unused_sequence' >= max_unused_sequence]_vars

\* Days at 0, 0, below the threshold, above it and at 0 again: every
\* inequality but the first is strict or tight in a different place.
C32_Witness ==
    /\ pc = "walk"
    /\ current_date > analysis_period_end_date
    /\ current_unused_days_consecutive = 1
    /\ current_underutilized_days_consecutive = 1
    /\ max_unused_sequence = 2
    /\ max_underutilized_sequence = 3

\* C33: in every result, max unused <= total unused <= total underutilized
\* <= total days - missing days, max underutilized <= total underutilized,
\* and each maximum is 0 exactly when its total is 0.
C33_ResultCounters ==
    \A i \in 1..Len(aggregated_results) :
        LET r == aggregated_results[i]
            totalDays == r.analysis_period_end - r.analysis_period_start + 1
        IN  /\ r.max_consecutive_unused_days <= r.total_unused_days_period
            /\ r.total_unused_days_period <= r.total_underutilized_days_period
            /\ r.total_underutilized_days_period <= totalDays - r.missing_days
            /\ r.max_consecutive_underutilized_days
                  <= r.total_underutilized_days_period
            /\ (r.max_consecutive_unused_days = 0)
                  <=> (r.total_unused_days_period = 0)
            /\ (r.max_consecutive_underutilized_days = 0)
                  <=> (r.total_underutilized_days_period = 0)

\* Days at 0, below the threshold, above it, at 0 and missing: every
\* inequality of the chain is strict.
C33_Witness ==
    /\ Emitted
    /\ LastResult.max_consecutive_unused_days = 1
    /\ LastResult.total_unused_days_period = 2
    /\ LastResult.max_consecutive_underutilized_days = 2
    /\ LastResult.total_underutilized_days_period = 3
    /\ LastResult.missing_days = 1
    /\ total_analysis_days = 5

\* C34: a result with days_remaining -1 and expiry_status "active" has no
\* expiry date (end_date "N/A"); a result with an expiry date and
\* days_remaining -1 has expiry_status "expired".
C34_SentinelNotConfused ==
    \A i \in 1..Len(aggregated_results) :
        LET r == aggregated_results[i]
        IN  /\ (r.days_remaining = -1 /\ r.expiry_status = "active")
                  => r.end_date = "N/A"
            /\ (r.end_date # "N/A" /\ r.days_remaining = -1)
                  => r.expiry_status = "expired"

\* An RI that expired the day before the window ends, with a warning period
\* that would cover it.
C34_Witness ==
    /\ ExpiryComputed
    /\ LastResult.days_remaining = -1
    /\ LastResult.expiry_status = "expired"
    /\ LastResult.term_months = 12
    /\ expiry_warn_days = 30

\* ------------------------------------------------ claims on the fetched rows

\* C35: every result has a day with data (missing_days < total days), its
\* status is not "No Data", and the placeholders set before the walk
\* (default sku and region, "N/A" term, purchase date and recipient) are
\* overwritten.
C35_NeverNoData ==
    \A i \in 1..Len(aggregated_results) :
        LET r == aggregated_results[i]
            totalDays == r.analysis_period_end - r.analysis_period_start + 1
        IN  /\ r.missing_days < totalDays
            /\ r.status # "No Data"
            /\ r.sku_name # default_sku
            /\ r.region # default_region
            /\ r.term_months # TermNA
            /\ r.purchase_date # "N/A"
            /\ r.email_recipient # "N/A"

\* ------------------------------------------------------ claims on termination

\* C36: a walk starts at the window's first date, every step moves to the
\* next date, and the walk is left after exactly total_analysis_days steps
\* (none when the window ends before it starts); the function returns, with
\* one result per identity of ri_grouped_data.
C36_WalkTerminates ==
    /\ [](pc = "walk" =>
            (/\ analysis_period_start_date <= current_date
             /\ current_date - analysis_period_start_date
                   <= Max(0, total_analysis_days)))
    /\ [][/\ ((pc # "walk" /\ pc' = "walk")
                 => (current_date' = analysis_period_start_date))
           /\ ((pc = "walk" /\ pc' = "walk")
                 => (/\ current_date <= analysis_period_end_date
                     /\ current_date' = current_date + 1))
           /\ ((pc = "walk" /\ pc' # "walk")
                 => (current_date - analysis_period_start_date
                       = Max(0, total_analysis_days)))]_vars
    /\ [](pc = "done" =>
            (/\ Len(aggregated_results) = Cardinality(DOMAIN ri_grouped_data)
             /\ \A id \in DOMAIN ri_grouped_data :
                   Cardinality({i \in 1..Len(aggregated_results) :
                       /\ aggregated_results[i].subscription_id = id[1]
                       /\ aggregated_results[i].ri_id = id[2]}) = 1))
    /\ <>(pc = "done")

\* The function has returned from a three-day window with two identities.
C36_Witness ==
    /\ pc = "done"
    /\ total_analysis_days = 3
    /\ Len(aggregated_results) = 2
    /\ current_date = analysis_period_end_date + 1

\* ----------------------------------------------------- claims on main.py

\* The stages that have finished, in the order they finished.
StagesRun == [i \in 1..Len(stage_results) |-> stage_results[i].stage]

\* C37: in mode "all" the stages run in the order import, analyze, send; a
\* stage runs only after every stage before it returned 0; once a stage
\* returned another code no stage runs after it, main exits with that code
\* and "Done." is not printed.
C37_StagesInOrder ==
    mode = "all" =>
        /\ StagesRun = SubSeq(Stages, 1, Len(stage_results))
        /\ running # "none" =>
              /\ running = Stages[Len(stage_results) + 1]
              /\ \A i \in 1..Len(stage_results) :
                    stage_results[i].returncode = 0
        /\ \A i \in 1..Len(stage_results) :
              stage_results[i].returncode # 0 =>
                  /\ i = Len(stage_results)
                  /\ running = "none"
                  /\ main_pc = "exited"
                  /\ exit_code = stage_results[i].returncode
                  /\ \A k \in 1..Len(stdout) : stdout[k] # "Done."
        /\ (\E k \in 1..Len(stdout) : stdout[k] = "Done.") =>
              /\ Len(stage_results) = 3
              /\ \A i \in 1..3 : stage_results[i].returncode = 0

\* The import returned 0, the analysis returned 2: main has exited with 2
\* and the send stage has not run.
C37_Witness ==
    /\ mode = "all"
    /\ main_pc = "exited"
    /\ exit_code = 2
    /\ StagesRun = <<"import", "analyze">>
    /\ stage_results[1].returncode = 0

\* ------------------------------------------- claims on import_to_db_func

\* The row being read has too few cells or a cell that does not convert.
RowMalformed ==
    /\ blob_pc = "rows"
    /\ row_num <= Len(csv_reader)
    /\ \/ ~csv_reader[row_num].enough_cells
       \/ RowValueError(csv_reader[row_num])

\* The rows of the blob that have every cell and convert.
WellFormedRows ==
    {csv_reader[i] : i \in {k \in 1..Len(csv_reader) :
        csv_reader[k].enough_cells /\ ~RowValueError(csv_reader[k])}}

====
